---- MODULE Spec2Model ----
(***************************************************************************)
(* Pricing and offer resolution engine of CH Item Master.                  *)
(*                                                                         *)
(* State: the CH Item Price and CH Item Offer tables, the ERPNext Item     *)
(* Price / Pricing Rule documents they are synced into, the wall clock,    *)
(* and the position of concurrent request handlers.  Dates are day         *)
(* numbers 1..MaxDay; an unset date (NULL) is the value Unset.             *)
(***************************************************************************)
EXTENDS Integers, Sequences, FiniteSets, TLC

VARIABLES
    today,        \* nowdate(): the wall-clock day
    price,        \* tabCH Item Price: sequence of rows, the name is the index
    itemPrice,    \* tabItem Price rows, keyed by ch_source_price
    offer,        \* tabCH Item Offer: sequence of rows, the name is the index
    pricingRule,  \* tabPricing Rule rows, keyed by the offer that owns them
    outcome,      \* what the last request returned or raised
    res,          \* what the last read-only resolution returned
    offers,       \* the list handed to the offer resolver
    serial,       \* the CH Serial Lifecycle document of one serial number
    tabItem,      \* Item rows with their Item Variant Attribute rows, by item code
    wr            \* concurrent writers: position and local variables

vars == <<today, price, itemPrice, offer, pricingRule, outcome, res, offers, tabItem, serial, wr>>

----------------------------------------------------------------------------
(* Bounds *)

MaxDay == 2
MaxPrice == 2
MaxOffers == 2
MaxPriority == 2
MaxLog == 3

PriceNames == {1, 2}
OfferNames == {1, 2}
Days == 1..MaxDay
Unset == 0
Null == "NULL"

Items == {"A", "B", "C"}
Channels == {"POS", "WEB"}
Companies == {"X", "Y"}

----------------------------------------------------------------------------
(* Reference data: CH Price Channel rows *)

\* price_list of each channel; WEB has no linked Price List
PriceListOf(ch) == IF ch = "POS" THEN "PL-POS" ELSE Null

----------------------------------------------------------------------------
(* frappe filter semantics *)

\* ifnull(column, '')
Coalesce(v) == IF v = Null THEN "" ELSE v

\* filters = {"company": value}: NULL and '' are the same key value
SameValue(a, b) == Coalesce(a) = Coalesce(b)

----------------------------------------------------------------------------
(* CH Item Price: validation *)

NoConflicts == {}

PositivePricesOk(doc) ==
    /\ doc.mrp >= 0 /\ doc.mop >= 0 /\ doc.selling_price >= 0
    /\ doc.selling_price > 0

\* slip: the MOP against Selling Price comparison is missing
PriceHierarchyOkNoMop(doc) ==
    /\ ~(doc.mrp # 0 /\ doc.mop # 0 /\ doc.mrp < doc.mop)
    /\ ~(doc.mrp # 0 /\ doc.selling_price # 0 /\ doc.mrp < doc.selling_price)

PriceHierarchyOk(doc) ==
    /\ ~(doc.mrp # 0 /\ doc.mop # 0 /\ doc.mrp < doc.mop)
    /\ ~(doc.mop # 0 /\ doc.selling_price # 0 /\ doc.mop < doc.selling_price)
    /\ ~(doc.mrp # 0 /\ doc.selling_price # 0 /\ doc.mrp < doc.selling_price)

EffectiveDatesOk(doc) ==
    ~(doc.effective_to # Unset /\ doc.effective_to < doc.effective_from)

\* slip: the status filter forgets "Scheduled"
ExistingPricesActiveOnly(rows, doc, name) ==
    {n \in DOMAIN rows :
        /\ rows[n].item_code = doc.item_code
        /\ rows[n].channel = doc.channel
        /\ SameValue(rows[n].company, doc.company)
        /\ n # name
        /\ rows[n].status = "Active"
        /\ (doc.effective_to # Unset => rows[n].effective_from <= doc.effective_to)
        /\ (rows[n].effective_to = Unset \/ rows[n].effective_to >= doc.effective_from)}

\* the rows frappe.get_all returns in _check_overlapping_price
ExistingPrices(rows, doc, name) ==
    {n \in DOMAIN rows :
        /\ rows[n].item_code = doc.item_code
        /\ rows[n].channel = doc.channel
        /\ SameValue(rows[n].company, doc.company)
        /\ n # name
        /\ rows[n].status \in {"Active", "Scheduled"}
        /\ (doc.effective_to # Unset => rows[n].effective_from <= doc.effective_to)
        /\ (rows[n].effective_to = Unset \/ rows[n].effective_to >= doc.effective_from)}

\* slip: "<=" for "<", two intervals that share one day pass as disjoint
OverlapConflictsSharedDay(rows, existing, doc) ==
    {n \in existing :
        ~( (doc.effective_to # Unset /\ doc.effective_to <= rows[n].effective_from)
           \/ (rows[n].effective_to # Unset /\ doc.effective_from >= rows[n].effective_to) )}

\* the conflicts list built from the fetched rows
OverlapConflicts(rows, existing, doc) ==
    {n \in existing :
        ~( (doc.effective_to # Unset /\ doc.effective_to < rows[n].effective_from)
           \/ (rows[n].effective_to # Unset /\ doc.effective_from > rows[n].effective_to) )}

\* _auto_set_status and the same computation in approve()
\* slip: the branch for a record that has ended is missing
StatusFromDatesNoExpiry(doc, now) ==
    IF now < doc.effective_from THEN "Scheduled" ELSE "Active"

StatusFromDates(doc, now) ==
    IF doc.effective_to # Unset /\ now > doc.effective_to THEN "Expired"
    ELSE IF now < doc.effective_from THEN "Scheduled"
    ELSE "Active"

AutoSetStatus(doc, now) ==
    IF doc.status = "Draft" THEN "Draft" ELSE StatusFromDates(doc, now)

\* CHItemPrice.validate against the rows the overlap query sees:
\* the error raised (or "ok"), the conflicting names, the status to store
ValidatePrice(rows, doc, name, now) ==
    IF ~PositivePricesOk(doc)
    THEN [err |-> "InvalidPriceError", conflicts |-> NoConflicts, status |-> doc.status]
    ELSE IF ~PriceHierarchyOk(doc)
    THEN [err |-> "InvalidPriceHierarchyError", conflicts |-> NoConflicts, status |-> doc.status]
    ELSE IF ~EffectiveDatesOk(doc)
    THEN [err |-> "ValidationError", conflicts |-> NoConflicts, status |-> doc.status]
    ELSE LET c == OverlapConflicts(rows, ExistingPrices(rows, doc, name), doc)
         IN  IF c # {}
             THEN [err |-> "OverlappingPriceError", conflicts |-> c, status |-> doc.status]
             ELSE [err |-> "ok", conflicts |-> NoConflicts, status |-> AutoSetStatus(doc, now)]

----------------------------------------------------------------------------
(* CH Item Price: sync to the ERPNext Item Price *)

NoItemPrice ==
    [exists |-> FALSE, price_list_rate |-> 0, valid_from |-> Unset, valid_upto |-> Unset]

\* _sync_to_erp_item_price: the Item Price row after the sync
SyncedItemPrice(doc) ==
    [exists |-> TRUE, price_list_rate |-> doc.selling_price,
     valid_from |-> doc.effective_from, valid_upto |-> doc.effective_to]

\* _expire_erp_item_price: valid_upto = today on the linked row, if any
ExpiredItemPrice(ip, doc, now) ==
    IF PriceListOf(doc.channel) # Null /\ ip.exists
    THEN [ip EXCEPT !.valid_upto = now]
    ELSE ip

\* on_update: the Item Price row and the back-reference after a save
OnUpdateItemPrice(ip, doc, now) ==
    IF doc.status \in {"Active", "Scheduled"}
    THEN IF PriceListOf(doc.channel) = Null THEN ip ELSE SyncedItemPrice(doc)
    ELSE IF doc.status = "Expired" THEN ExpiredItemPrice(ip, doc, now)
    ELSE ip

OnUpdateBackRef(doc) ==
    IF doc.status \in {"Active", "Scheduled"} /\ PriceListOf(doc.channel) # Null
    THEN TRUE ELSE doc.erp_item_price

----------------------------------------------------------------------------
(* CH Item Price: Document.insert / Document.save *)

NewPriceDoc(item, ch, co, mrp, mop, sp, from, to, status) ==
    [item_code |-> item, channel |-> ch, company |-> co,
     mrp |-> mrp, mop |-> mop, selling_price |-> sp,
     effective_from |-> from, effective_to |-> to, status |-> status,
     erp_item_price |-> FALSE, modified |-> Unset]

PutRow(rows, name, doc) ==
    IF name \in DOMAIN rows THEN [rows EXCEPT ![name] = doc] ELSE Append(rows, doc)

\* validate, write the row, run on_update; nothing is written when validate raises.
\* snapshot is the table content the overlap query reads.
SavePriceDoc(rows, ips, snapshot, doc, name, now) ==
    LET v      == ValidatePrice(snapshot, doc, name, now)
        stored == [doc EXCEPT !.status = v.status, !.modified = now]
        linked == [stored EXCEPT !.erp_item_price = OnUpdateBackRef(stored)]
    IN  IF v.err # "ok"
        THEN [err |-> v.err, conflicts |-> v.conflicts, rows |-> rows, ips |-> ips]
        ELSE [err |-> "ok", conflicts |-> NoConflicts,
              rows |-> PutRow(rows, name, linked),
              ips |-> [ips EXCEPT ![name] = OnUpdateItemPrice(@, stored, now)]]

\* what the caller sees: the exception raised ("ok" when none) and the
\* record names its message lists
Result(r) ==
    [err |-> r.err, conflicts |-> r.conflicts]

\* frappe.new_doc("CH Item Price") ... insert()
\* (a request that would store more rows than PriceNames holds is not issued)
InsertSave(doc) ==
    SavePriceDoc(price, itemPrice, price, doc, Len(price) + 1, today)

InsertPrice(doc) ==
    /\ \E r \in {InsertSave(doc)} :
           /\ r.err = "ok" => Len(price) < Cardinality(PriceNames)
           /\ price' = r.rows
           /\ itemPrice' = r.ips
           /\ outcome' = Result(r)
    /\ res' = [kind |-> "none"]
    /\ UNCHANGED <<serial, tabItem, today, offer, pricingRule, offers, wr>>

\* frappe.get_doc("CH Item Price", name), field changes, save()
UpdateSave(name, co, mrp, mop, sp, from, to) ==
    SavePriceDoc(price, itemPrice, price,
                 [price[name] EXCEPT !.company = co, !.mrp = mrp, !.mop = mop,
                     !.selling_price = sp, !.effective_from = from, !.effective_to = to],
                 name, today)

UpdatePrice(name, co, mrp, mop, sp, from, to) ==
    /\ name \in DOMAIN price
    /\ \E r \in {UpdateSave(name, co, mrp, mop, sp, from, to)} :
           /\ price' = r.rows
           /\ itemPrice' = r.ips
           /\ outcome' = Result(r)
    /\ res' = [kind |-> "none"]
    /\ UNCHANGED <<serial, tabItem, today, offer, pricingRule, offers, wr>>

\* CHItemPrice.approve (approve_price delegates to it)
ApprovePriceResult(rows, ips, name, now) ==
    LET doc == [rows[name] EXCEPT !.status = StatusFromDates(rows[name], now)]
    IN  SavePriceDoc(rows, ips, rows, doc, name, now)

ApprovePrice(name) ==
    /\ name \in DOMAIN price
    /\ \E r \in {ApprovePriceResult(price, itemPrice, name, today)} :
           /\ price' = r.rows
           /\ itemPrice' = r.ips
           /\ outcome' = Result(r)
    /\ res' = [kind |-> "none"]
    /\ UNCHANGED <<serial, tabItem, today, offer, pricingRule, offers, wr>>

\* slip: the status set by reject is stored as set, not recomputed
RejectPriceResultAsSet(rows, ips, name, now) ==
    LET doc == [rows[name] EXCEPT !.status = "Expired"]
        r   == SavePriceDoc(rows, ips, rows, doc, name, now)
    IN  IF r.err = "ok"
        THEN [r EXCEPT !.rows = [r.rows EXCEPT ![name].status = "Expired"],
                       !.ips = [ips EXCEPT ![name] = ExpiredItemPrice(@, doc, now)]]
        ELSE r

\* CHItemPrice.reject: status = "Expired", save(), then _expire_erp_item_price
RejectPriceResult(rows, ips, name, now) ==
    LET doc == [rows[name] EXCEPT !.status = "Expired"]
        r   == SavePriceDoc(rows, ips, rows, doc, name, now)
    IN  IF r.err = "ok"
        THEN [r EXCEPT !.ips = [r.ips EXCEPT ![name] = ExpiredItemPrice(@, doc, now)]]
        ELSE r

RejectPrice(name) ==
    /\ name \in DOMAIN price
    /\ \E r \in {RejectPriceResult(price, itemPrice, name, today)} :
           /\ price' = r.rows
           /\ itemPrice' = r.ips
           /\ outcome' = Result(r)
    /\ res' = [kind |-> "none"]
    /\ UNCHANGED <<serial, tabItem, today, offer, pricingRule, offers, wr>>

----------------------------------------------------------------------------
(* Reference data: Item, Item Variant Attribute, CH Sub Category Spec rows. *)

\* an Item row: its model, sub-category and template, and its Item Variant
\* Attribute rows as a function from attribute to value
ItemRow(model, sc, template, attrs) ==
    [ch_model |-> model, ch_sub_category |-> sc, variant_of |-> template, attrs |-> attrs]

\* three variants of one template: A and B differ only in Colour, C has
\* another Storage
DefaultItems ==
    [i \in Items |->
        ItemRow("M", "Phones", "T",
                CASE i = "A" -> ("Colour" :> "Red")  @@ ("Storage" :> "128")
                  [] i = "B" -> ("Colour" :> "Blue") @@ ("Storage" :> "128")
                  [] OTHER   -> ("Colour" :> "Red")  @@ ("Storage" :> "256"))]

VariantOf(i) == tabItem[i].variant_of

SubCategoryOf(i) == tabItem[i].ch_sub_category

\* CH Sub Category Spec rows with is_variant = 1 and affects_price = 0
NonPriceSpecs(sc) == IF sc = "Phones" THEN {"Colour"} ELSE {}

VariantAttrs(i) == tabItem[i].attrs

\* {k: v for k, v in attrs.items() if k not in non_price_specs}
PriceKey(i, nonPrice) ==
    [k \in (DOMAIN VariantAttrs(i)) \ nonPrice |-> VariantAttrs(i)[k]]

\* _get_sibling_item_codes
SiblingItemCodes(i) ==
    LET nonPrice == NonPriceSpecs(SubCategoryOf(i))
        variants == {j \in Items : VariantOf(j) = VariantOf(i)}
        siblings == {j \in variants : PriceKey(j, nonPrice) = PriceKey(i, nonPrice)}
    IN  IF VariantOf(i) = Null \/ nonPrice = {} \/ Cardinality(variants) <= 1
           \/ DOMAIN PriceKey(i, nonPrice) = {}
        THEN {i}
        ELSE IF siblings = {} THEN {i} ELSE siblings

\* the order in which the rows of the Item table come back
ItemOrder == <<"A", "B", "C">>

TargetItems(i, propagate) ==
    LET In(j) == IF propagate THEN j \in SiblingItemCodes(i) ELSE j = i
    IN  SelectSeq(ItemOrder, In)

----------------------------------------------------------------------------
(* Row order of queries without a deciding order_by *)

\* every order in which the database may hand back the rows of a table
Orderings(S) ==
    {f \in [1..Cardinality(S) -> S] : \A i, j \in 1..Cardinality(S) : f[i] = f[j] => i = j}

\* the first row of S in the order the database returns rows, 0 when S is empty
FirstIn(order, S) ==
    IF S = {} THEN 0
    ELSE order[CHOOSE k \in DOMAIN order :
                   order[k] \in S /\ \A j \in 1..(k - 1) : order[j] \notin S]

----------------------------------------------------------------------------
(* save_price_with_propagation *)

\* the rows frappe.db.get_value may return as "existing" for a target
ActivePricesOf(rows, item, ch) ==
    {n \in DOMAIN rows : /\ rows[n].item_code = item
                         /\ rows[n].channel = ch
                         /\ rows[n].status \in {"Active", "Scheduled"}}

\* the row frappe.db.get_value returns as "existing" for each target, 0 when
\* there is none; order is the order in which the table returns rows
ExistingPick(rows, ch, order) ==
    [t \in Items |-> FirstIn(order, ActivePricesOf(rows, t, ch))]

RECURSIVE PropagateLoop(_, _, _, _, _, _)
\* the for loop over target_items; it stops at the first save that raises
PropagateLoop(rows, ips, targets, pick, a, now) ==
    IF targets = <<>>
    THEN [err |-> "ok", conflicts |-> NoConflicts, rows |-> rows, ips |-> ips, full |-> FALSE]
    ELSE LET t == Head(targets)
             isUpdate == pick[t] # 0
             doc == IF isUpdate
                    THEN [rows[pick[t]] EXCEPT !.mrp = a.mrp, !.mop = a.mop,
                              !.selling_price = a.selling_price,
                              !.effective_from = a.effective_from,
                              !.company = IF a.company # "" THEN a.company ELSE @]
                    ELSE NewPriceDoc(t, a.channel,
                              IF a.company # "" THEN a.company ELSE Null,
                              a.mrp, a.mop, a.selling_price, a.effective_from, Unset, a.status)
             name == IF isUpdate THEN pick[t] ELSE Len(rows) + 1
             r == SavePriceDoc(rows, ips, rows, doc, name, now)
         IN  IF ~isUpdate /\ Len(rows) >= Cardinality(PriceNames)
             THEN [err |-> "ok", conflicts |-> NoConflicts, rows |-> rows, ips |-> ips, full |-> TRUE]
             ELSE IF r.err # "ok"
             THEN [err |-> r.err, conflicts |-> r.conflicts, rows |-> r.rows, ips |-> r.ips,
                   full |-> FALSE]
             ELSE PropagateLoop(r.rows, r.ips, Tail(targets), pick, a, now)

\* slip: the rows saved before the failing one are kept
SavePriceWithPropagationPartial(item, a, propagate) ==
    \E order \in Orderings(DOMAIN price) :
      \E r \in {PropagateLoop(price, itemPrice, TargetItems(item, propagate),
                              ExistingPick(price, a.channel, order), a, today)} :
        /\ ~r.full
        /\ price' = r.rows
        /\ itemPrice' = r.ips
        /\ outcome' = Result(r)
        /\ res' = [kind |-> "none"]
        /\ UNCHANGED <<serial, tabItem, today, offer, pricingRule, offers, wr>>

\* The whitelisted request: the loop, then frappe.db.commit(); a save that
\* raises ends the request and the request's transaction is rolled back.
SavePriceWithPropagation(item, a, propagate) ==
    \E order \in Orderings(DOMAIN price) :
      \E r \in {PropagateLoop(price, itemPrice, TargetItems(item, propagate),
                              ExistingPick(price, a.channel, order), a, today)} :
        /\ ~r.full
        /\ price' = IF r.err = "ok" THEN r.rows ELSE price
        /\ itemPrice' = IF r.err = "ok" THEN r.ips ELSE itemPrice
        /\ outcome' = Result(r)
        /\ res' = [kind |-> "none"]
        /\ UNCHANGED <<serial, tabItem, today, offer, pricingRule, offers, wr>>

----------------------------------------------------------------------------
(* CH Item Offer: validation *)

NewOfferDoc(item, ch, co, otype, vtype, value, prio, stackable, start, end) ==
    [item_code |-> item, channel |-> ch, company |-> co,
     offer_level |-> "Item", apply_on |-> "Item Code",
     offer_type |-> otype, value_type |-> vtype, value |-> value,
     priority |-> prio, stackable |-> stackable,
     start_date |-> start, end_date |-> end,
     status |-> "Draft", approval_status |-> "Pending",
     erp_pricing_rule |-> FALSE, modified |-> Unset]

OfferDatesOk(doc) ==
    /\ doc.start_date # Unset
    /\ doc.end_date # Unset
    /\ ~(doc.end_date <= doc.start_date)

OfferValueOk(doc) ==
    /\ doc.value > 0
    /\ ~(doc.value_type = "Percentage" /\ doc.value > 100)

\* slip: the overlap query does not leave out the offer being saved
OverlappingOffersSelf(rows, doc, name) ==
    IF \/ doc.approval_status = "Rejected"
       \/ doc.status \in {"Cancelled", "Expired"}
       \/ doc.offer_level # "Item" \/ doc.apply_on # "Item Code"
       \/ doc.item_code = Null \/ doc.channel = Null
    THEN {}
    ELSE {n \in DOMAIN rows :
            /\ rows[n].item_code = doc.item_code
            /\ rows[n].channel = doc.channel
            /\ rows[n].offer_type = doc.offer_type
            /\ rows[n].status \in {"Active", "Scheduled"}
            /\ rows[n].start_date <= doc.end_date
            /\ rows[n].end_date >= doc.start_date}

\* the rows the overlap query of _validate_no_duplicate_active_offer returns
OverlappingOffers(rows, doc, name) ==
    IF \/ doc.approval_status = "Rejected"
       \/ doc.status \in {"Cancelled", "Expired"}
       \/ doc.offer_level # "Item" \/ doc.apply_on # "Item Code"
       \/ doc.item_code = Null \/ doc.channel = Null
    THEN {}
    ELSE {n \in DOMAIN rows :
            /\ rows[n].item_code = doc.item_code
            /\ rows[n].channel = doc.channel
            /\ rows[n].offer_type = doc.offer_type
            /\ rows[n].status \in {"Active", "Scheduled"}
            /\ n # name
            /\ rows[n].start_date <= doc.end_date
            /\ rows[n].end_date >= doc.start_date}

\* slip: the approval test is missing, the status always follows the dates
OfferAutoStatusNoApproval(doc, now) ==
    IF doc.approval_status = "Rejected" \/ doc.status = "Cancelled" THEN doc.status
    ELSE IF now > doc.end_date THEN "Expired"
    ELSE IF now < doc.start_date THEN "Scheduled"
    ELSE "Active"

\* CHItemOffer._auto_set_status
OfferAutoStatus(doc, now) ==
    IF doc.approval_status = "Rejected" \/ doc.status = "Cancelled" THEN doc.status
    ELSE IF doc.approval_status # "Approved" THEN "Draft"
    ELSE IF now > doc.end_date THEN "Expired"
    ELSE IF now < doc.start_date THEN "Scheduled"
    ELSE "Active"

\* CHItemOffer.validate
ValidateOffer(rows, doc, name, now) ==
    IF ~OfferDatesOk(doc)
    THEN [err |-> "ValidationError", conflicts |-> NoConflicts, status |-> doc.status]
    ELSE IF ~OfferValueOk(doc)
    THEN [err |-> "InvalidOfferError", conflicts |-> NoConflicts, status |-> doc.status]
    ELSE IF doc.offer_level = "Item" /\ doc.apply_on = "Item Code" /\ doc.item_code = Null
    THEN [err |-> "ValidationError", conflicts |-> NoConflicts, status |-> doc.status]
    ELSE LET c == OverlappingOffers(rows, doc, name)
         IN  IF c # {}
             THEN [err |-> "OverlappingOfferError", conflicts |-> c, status |-> doc.status]
             ELSE [err |-> "ok", conflicts |-> NoConflicts, status |-> OfferAutoStatus(doc, now)]

----------------------------------------------------------------------------
(* CH Item Offer: insert, approve, reject and the Pricing Rule sync *)

NoPricingRule ==
    [exists |-> FALSE, disable |-> FALSE, rate_or_discount |-> Null, value |-> 0,
     valid_from |-> Unset, valid_upto |-> Unset]

\* _sync_to_erp_pricing_rule: the Pricing Rule row after the sync
SyncedPricingRule(doc) ==
    [exists |-> TRUE, disable |-> FALSE,
     rate_or_discount |-> IF doc.value_type = "Amount" THEN "Discount Amount"
                          ELSE IF doc.value_type = "Price Override" THEN "Rate"
                          ELSE "Discount Percentage",
     value |-> doc.value, valid_from |-> doc.start_date, valid_upto |-> doc.end_date]

SaveOfferDoc(rows, doc, name, now) ==
    LET v == ValidateOffer(rows, doc, name, now)
    IN  IF v.err # "ok"
        THEN [err |-> v.err, conflicts |-> v.conflicts, rows |-> rows]
        ELSE [err |-> "ok", conflicts |-> NoConflicts,
              rows |-> PutRow(rows, name, [doc EXCEPT !.status = v.status, !.modified = now])]

\* frappe.new_doc("CH Item Offer") ... insert()
InsertOffer(doc) ==
    /\ \E r \in {SaveOfferDoc(offer, doc, Len(offer) + 1, today)} :
           /\ r.err = "ok" => Len(offer) < Cardinality(OfferNames)
           /\ offer' = r.rows
           /\ outcome' = Result(r)
    /\ res' = [kind |-> "none"]
    /\ UNCHANGED <<serial, tabItem, today, price, itemPrice, pricingRule, offers, wr>>

\* frappe.get_doc("CH Item Offer", name), new dates, save()
UpdateOffer(name, start, end) ==
    /\ name \in DOMAIN offer
    /\ LET doc == [offer[name] EXCEPT !.start_date = start, !.end_date = end]
       IN  \E r \in {SaveOfferDoc(offer, doc, name, today)} :
           /\ offer' = r.rows
           /\ outcome' = Result(r)
    /\ res' = [kind |-> "none"]
    /\ UNCHANGED <<serial, tabItem, today, price, itemPrice, pricingRule, offers, wr>>

\* CHItemOffer.approve (approve_offer delegates to it)
ApproveOfferResult(rows, prs, name, now) ==
    LET d1  == [rows[name] EXCEPT !.approval_status = "Approved"]
        doc == [d1 EXCEPT !.status = OfferAutoStatus(d1, now)]
        r   == SaveOfferDoc(rows, doc, name, now)
    IN  IF r.err = "ok"
        THEN [err |-> "ok", conflicts |-> NoConflicts,
              rows |-> [r.rows EXCEPT ![name].erp_pricing_rule = TRUE],
              prs |-> [prs EXCEPT ![name] = SyncedPricingRule(r.rows[name])]]
        ELSE [err |-> r.err, conflicts |-> r.conflicts, rows |-> rows, prs |-> prs]

ApproveOffer(name) ==
    /\ name \in DOMAIN offer
    /\ \E r \in {ApproveOfferResult(offer, pricingRule, name, today)} :
           /\ offer' = r.rows
           /\ pricingRule' = r.prs
           /\ outcome' = Result(r)
    /\ res' = [kind |-> "none"]
    /\ UNCHANGED <<serial, tabItem, today, price, itemPrice, offers, wr>>

\* CHItemOffer.reject
RejectOfferResult(rows, prs, name, now) ==
    LET doc == [rows[name] EXCEPT !.approval_status = "Rejected", !.status = "Cancelled"]
        r   == SaveOfferDoc(rows, doc, name, now)
    IN  [err |-> r.err, conflicts |-> r.conflicts, rows |-> r.rows,
         prs |-> IF r.err = "ok" /\ doc.erp_pricing_rule /\ prs[name].exists
                 THEN [prs EXCEPT ![name].disable = TRUE]
                 ELSE prs]

RejectOffer(name) ==
    /\ name \in DOMAIN offer
    /\ \E r \in {RejectOfferResult(offer, pricingRule, name, today)} :
           /\ offer' = r.rows
           /\ pricingRule' = r.prs
           /\ outcome' = Result(r)
    /\ res' = [kind |-> "none"]
    /\ UNCHANGED <<serial, tabItem, today, price, itemPrice, offers, wr>>

----------------------------------------------------------------------------
(* Offer resolver: _compute_best_offer *)

NonePrice == 0 - 1

\* o.priority or 1
PriorityOr1(o) == IF o.priority = 0 THEN 1 ELSE o.priority

SortKey(o) == 0 - PriorityOr1(o)

RECURSIVE InsertByKey(_, _)
\* o goes behind every element whose key is not larger: the sort is stable
InsertByKey(sorted, o) ==
    IF sorted = <<>> THEN <<o>>
    ELSE IF SortKey(Head(sorted)) <= SortKey(o)
         THEN <<Head(sorted)>> \o InsertByKey(Tail(sorted), o)
         ELSE <<o>> \o sorted

RECURSIVE SortOffers(_, _)
\* sorted(offers, key=lambda o: -(o.priority or 1))
SortOffers(done, rest) ==
    IF rest = <<>> THEN done
    ELSE SortOffers(InsertByKey(done, Head(rest)), Tail(rest))

IsOverride(o) == o.offer_type = "Price Override" \/ o.value_type = "Price Override"

RECURSIVE FirstOverride(_)
\* the first loop: the first override offer in sorted order, <<>> when none
FirstOverride(sorted) ==
    IF sorted = <<>> THEN <<>>
    ELSE IF IsOverride(Head(sorted)) THEN <<Head(sorted)>>
    ELSE FirstOverride(Tail(sorted))

RECURSIVE Totals(_, _, _, _)
\* the second loop: stackable discounts plus the first non-stackable
Totals(sorted, pct, amt, seen) ==
    IF sorted = <<>> THEN [total_pct |-> pct, total_amt |-> amt]
    ELSE LET o == Head(sorted)
             isPct == o.value_type = "Percentage"
         IN  IF o.stackable
             THEN Totals(Tail(sorted), IF isPct THEN pct + o.value ELSE pct,
                         IF isPct THEN amt ELSE amt + o.value, seen)
             ELSE IF ~seen
             THEN Totals(Tail(sorted), IF isPct THEN pct + o.value ELSE pct,
                         IF isPct THEN amt ELSE amt + o.value, TRUE)
             ELSE Totals(Tail(sorted), pct, amt, seen)

\* the returned dict: price (NonePrice for None or a missing key) and the
\* totals the label is printed from
ComputeBestOffer(list) ==
    IF list = <<>>
    THEN [kind |-> "empty", price |-> NonePrice, total_pct |-> 0, total_amt |-> 0]
    ELSE LET sorted == SortOffers(<<>>, list)
             ov == FirstOverride(sorted)
             t  == Totals(sorted, 0, 0, FALSE)
         IN  IF ov # <<>>
             THEN [kind |-> "override", price |-> ov[1].value, total_pct |-> 0, total_amt |-> 0]
             ELSE [kind |-> "discount", price |-> NonePrice,
                   total_pct |-> t.total_pct, total_amt |-> t.total_amt]

----------------------------------------------------------------------------
(* Expiry sweeper: scheduled_tasks.auto_expire_records *)

\* slip: "<=" for "<", a row is expired on its last day
SweepPricesLastDay(rows, now) ==
    [n \in DOMAIN rows |->
        LET r == rows[n]
            e == IF /\ r.status \in {"Active", "Scheduled"}
                    /\ r.effective_to # Unset /\ r.effective_to <= now
                 THEN [r EXCEPT !.status = "Expired", !.modified = now] ELSE r
        IN  IF /\ e.status = "Scheduled" /\ e.effective_from <= now
               /\ (e.effective_to = Unset \/ e.effective_to >= now)
            THEN [e EXCEPT !.status = "Active", !.modified = now] ELSE e]

\* the two UPDATE statements on tabCH Item Price, in order
SweepPrices(rows, now) ==
    [n \in DOMAIN rows |->
        LET r == rows[n]
            e == IF /\ r.status \in {"Active", "Scheduled"}
                    /\ r.effective_to # Unset /\ r.effective_to < now
                 THEN [r EXCEPT !.status = "Expired", !.modified = now] ELSE r
        IN  IF /\ e.status = "Scheduled" /\ e.effective_from <= now
               /\ (e.effective_to = Unset \/ e.effective_to >= now)
            THEN [e EXCEPT !.status = "Active", !.modified = now] ELSE e]

\* the loop over newly_expired: valid_upto = today on the linked Item Price
SweepItemPrices(ips, rows, now) ==
    [n \in DOMAIN ips |->
        IF /\ n \in DOMAIN rows
           /\ rows[n].status = "Expired" /\ rows[n].erp_item_price
           /\ rows[n].modified >= now
           /\ ips[n].exists
           /\ (ips[n].valid_upto = Unset \/ ips[n].valid_upto >= now)
        THEN [ips[n] EXCEPT !.valid_upto = now] ELSE ips[n]]

\* the two UPDATE statements on tabCH Item Offer, in order
SweepOffers(rows, now) ==
    [n \in DOMAIN rows |->
        LET r == rows[n]
            e == IF /\ r.status \in {"Active", "Scheduled"}
                    /\ r.approval_status = "Approved"
                    /\ r.end_date # Unset /\ r.end_date < now
                 THEN [r EXCEPT !.status = "Expired", !.modified = now] ELSE r
        IN  IF /\ e.status = "Scheduled" /\ e.approval_status = "Approved"
               /\ e.start_date <= now
               /\ (e.end_date = Unset \/ e.end_date >= now)
            THEN [e EXCEPT !.status = "Active", !.modified = now] ELSE e]

\* slip: ">" for ">=", the offers expired today are not selected
SweepPricingRulesLater(prs, rows, now) ==
    [n \in DOMAIN prs |->
        IF /\ n \in DOMAIN rows
           /\ rows[n].status = "Expired" /\ rows[n].erp_pricing_rule
           /\ rows[n].modified > now
           /\ prs[n].exists
        THEN [prs[n] EXCEPT !.disable = TRUE] ELSE prs[n]]

\* the loop over newly_expired_offers: disable the linked Pricing Rule
SweepPricingRules(prs, rows, now) ==
    [n \in DOMAIN prs |->
        IF /\ n \in DOMAIN rows
           /\ rows[n].status = "Expired" /\ rows[n].erp_pricing_rule
           /\ rows[n].modified >= now
           /\ prs[n].exists
        THEN [prs[n] EXCEPT !.disable = TRUE] ELSE prs[n]]

\* the UPDATE statement on tabCH Item Commercial Tag, on one row; no other
\* operation of the model reads or writes this table
SweepTag(t, now) ==
    IF t.status = "Active" /\ t.effective_to # Unset /\ t.effective_to < now
    THEN [t EXCEPT !.status = "Expired", !.modified = now] ELSE t

\* slip: the Pricing Rules are disabled before the offer rows are expired
AutoExpireRecordsRulesFirst ==
    /\ price' = SweepPrices(price, today)
    /\ itemPrice' = SweepItemPrices(itemPrice, price', today)
    /\ offer' = SweepOffers(offer, today)
    /\ pricingRule' = SweepPricingRules(pricingRule, offer, today)
    /\ outcome' = [err |-> "ok", conflicts |-> NoConflicts]
    /\ res' = [kind |-> "none"]
    /\ UNCHANGED <<serial, tabItem, today, offers, wr>>

AutoExpireRecords ==
    /\ price' = SweepPrices(price, today)
    /\ itemPrice' = SweepItemPrices(itemPrice, price', today)
    /\ offer' = SweepOffers(offer, today)
    /\ pricingRule' = SweepPricingRules(pricingRule, offer', today)
    /\ outcome' = [err |-> "ok", conflicts |-> NoConflicts]
    /\ res' = [kind |-> "none"]
    /\ UNCHANGED <<serial, tabItem, today, offers, wr>>

\* the writes to the Item Price and Pricing Rule tables a sweep attempts:
\* set_value on the rows the two loops select
RetractionAttempted ==
    \/ \E n \in DOMAIN price :
          LET rows == SweepPrices(price, today)
          IN  /\ rows[n].status = "Expired" /\ rows[n].erp_item_price
              /\ rows[n].modified >= today
              /\ itemPrice[n].exists
              /\ (itemPrice[n].valid_upto = Unset \/ itemPrice[n].valid_upto >= today)
    \/ \E n \in DOMAIN offer :
          LET rows == SweepOffers(offer, today)
          IN  /\ rows[n].status = "Expired" /\ rows[n].erp_pricing_rule
              /\ rows[n].modified >= today
              /\ pricingRule[n].exists

\* auto_expire_records when a set_value on the sink raises: the loops have no
\* try/except, the exception leaves the function before frappe.db.commit()
\* and the job's transaction, the UPDATE statements included, is rolled back
AutoExpireRecordsSinkFails ==
    /\ RetractionAttempted
    /\ outcome' = [err |-> "SinkError", conflicts |-> NoConflicts]
    /\ res' = [kind |-> "none"]
    /\ UNCHANGED <<serial, tabItem, today, price, itemPrice, offer, pricingRule, offers, wr>>

----------------------------------------------------------------------------
(* CH Serial Lifecycle *)

LifecycleStatuses ==
    {"Received", "In Stock", "Displayed", "Sold", "Returned", "In Service",
     "Refurbished", "Buyback", "Scrapped", "Lost"}

\* from_status -> allowed to_statuses; "" is the status of a serial that
\* has none yet
VALID_TRANSITIONS ==
    [s \in LifecycleStatuses \cup {""} |->
        CASE s = ""            -> {"Received"}
          [] s = "Received"    -> {"In Stock", "Returned", "Scrapped"}
          [] s = "In Stock"    -> {"Displayed", "Sold", "In Service", "Scrapped", "Lost"}
          [] s = "Displayed"   -> {"In Stock", "Sold", "Scrapped", "Lost"}
          [] s = "Sold"        -> {"Returned", "In Service"}
          [] s = "Returned"    -> {"In Stock", "In Service", "Refurbished", "Buyback", "Scrapped"}
          [] s = "In Service"  -> {"In Stock", "Refurbished", "Scrapped", "Returned"}
          [] s = "Refurbished" -> {"In Stock", "Buyback", "Scrapped"}
          [] s = "Buyback"     -> {"In Stock", "Refurbished", "Scrapped"}
          [] s = "Scrapped"    -> {}
          [] s = "Lost"        -> {}]

\* the document before it is first inserted
NoSerial == [exists |-> FALSE, lifecycle_status |-> "", lifecycle_log |-> <<>>]

\* _validate_transition: TRUE when it returns, FALSE when it throws
ValidateTransition(old_status, new_status) ==
    IF old_status = "" /\ new_status # "" THEN TRUE
    ELSE new_status \in VALID_TRANSITIONS[old_status]

\* _log_status_change
LogStatusChange(log, old_status, new_status) ==
    Append(log, [from_status |-> old_status, to_status |-> new_status])

\* before_save and the write: doc is the document being saved, dbStatus the
\* lifecycle_status of its stored row ("" when there is no row); a throw
\* leaves the stored document as it was
SaveSerial(doc, dbStatus, isNew) ==
    IF isNew \/ doc.lifecycle_status # dbStatus
    THEN IF ValidateTransition(dbStatus, doc.lifecycle_status)
         THEN [err |-> "ok",
               doc |-> [doc EXCEPT !.exists = TRUE,
                           !.lifecycle_log = LogStatusChange(@, dbStatus, doc.lifecycle_status)]]
         ELSE [err |-> "ValidationError", doc |-> serial]
    ELSE [err |-> "ok", doc |-> [doc EXCEPT !.exists = TRUE]]

\* frappe.new_doc("CH Serial Lifecycle") with a lifecycle_status, insert()
InsertSerial(new_status) ==
    /\ ~serial.exists
    /\ \E r \in {SaveSerial([NoSerial EXCEPT !.lifecycle_status = new_status], "", TRUE)} :
           /\ serial' = r.doc
           /\ outcome' = [err |-> r.err, conflicts |-> NoConflicts]
    /\ res' = [kind |-> "none"]
    /\ UNCHANGED <<tabItem, today, price, itemPrice, offer, pricingRule, offers, wr>>

\* update_lifecycle_status
\* (a change that would make the log longer than MaxLog is not requested)
UpdateLifecycleStatus(new_status) ==
    /\ serial.exists
    /\ \E r \in {SaveSerial([serial EXCEPT !.lifecycle_status = new_status],
                             serial.lifecycle_status, FALSE)} :
           /\ Len(r.doc.lifecycle_log) <= MaxLog
           /\ serial' = r.doc
           /\ outcome' = [err |-> r.err, conflicts |-> NoConflicts]
    /\ res' = [kind |-> "none"]
    /\ UNCHANGED <<tabItem, today, price, itemPrice, offer, pricingRule, offers, wr>>

\* the wall clock moves to the next day
Tick ==
    /\ today < MaxDay
    /\ today' = today + 1
    /\ UNCHANGED <<serial, tabItem, price, itemPrice, offer, pricingRule, outcome, res, offers, wr>>

----------------------------------------------------------------------------
(* Resolution facade: get_active_price *)

\* the rows of S as the list the query returns
OfferList(rows, order, S) ==
    LET In(n) == n \in S
        names == SelectSeq(order, In)
    IN  [k \in DOMAIN names |-> rows[names[k]]]

\* the price query: Active/Scheduled rows of item + channel that started on or before as_of
PriceCandidates(rows, item, ch, asOf) ==
    {n \in DOMAIN rows : /\ rows[n].item_code = item
                         /\ rows[n].channel = ch
                         /\ rows[n].status \in {"Active", "Scheduled"}
                         /\ rows[n].effective_from <= asOf}

\* order_by effective_from desc: the rows with the latest effective_from
LatestFrom(rows, cands) ==
    {n \in cands : \A m \in cands : rows[m].effective_from <= rows[n].effective_from}

\* the offer query of get_active_price
SingleItemOffers(rows, item, ch, asOf) ==
    {n \in DOMAIN rows : /\ rows[n].item_code = item
                         /\ rows[n].status \in {"Active", "Scheduled"}
                         /\ rows[n].approval_status = "Approved"
                         /\ rows[n].start_date <= asOf
                         /\ rows[n].end_date >= asOf
                         /\ Coalesce(rows[n].channel) \in {ch, ""}}

\* the returned dict; pOrder and oOrder are the orders in which the two
\* tables return rows that the query's order_by does not tell apart
ActivePrice(item, ch, asOf, pOrder, oOrder) ==
    LET cands   == PriceCandidates(price, item, ch, asOf)
        bp      == FirstIn(pOrder, LatestFrom(price, cands))
        late    == bp # 0 /\ price[bp].effective_to # Unset /\ price[bp].effective_to < asOf
        fetched == SingleItemOffers(offer, item, ch, asOf)
        best    == ComputeBestOffer(OfferList(offer, oOrder, fetched))
    IN  IF bp = 0 \/ late
        THEN [kind |-> "single", item |-> item, channel |-> ch, as_of |-> asOf,
              found |-> FALSE, price_name |-> 0, offer_names |-> {},
              best |-> ComputeBestOffer(<<>>), final_price |-> 0]
        ELSE [kind |-> "single", item |-> item, channel |-> ch, as_of |-> asOf,
              found |-> TRUE, price_name |-> bp, offer_names |-> fetched, best |-> best,
              final_price |-> IF best.price > 0 THEN best.price
                              ELSE price[bp].selling_price]

GetActivePrice(item, ch, asOf) ==
    /\ \E pOrder \in Orderings(DOMAIN price), oOrder \in Orderings(DOMAIN offer) :
          res' = ActivePrice(item, ch, asOf, pOrder, oOrder)
    /\ UNCHANGED <<serial, tabItem, today, price, itemPrice, offer, pricingRule, outcome, offers, wr>>

----------------------------------------------------------------------------
(* Resolution facade: get_ready_reckoner_data (group_by_price_specs = 0) *)

\* slip: the column is compared as it is, and a NULL company matches nothing
CompanyVisibleNoIfnull(rowCompany, company) ==
    company = "" \/ rowCompany \in {company, ""}

\* ["in", [company, "", None]]: ifnull(company, '') in (company, '', '');
\* no filter at all when the company argument is empty
CompanyVisible(rowCompany, company) ==
    company = "" \/ Coalesce(rowCompany) \in {company, "", Coalesce(Null)}

\* rows that survive the price query and the loop that builds price_index
GridPriceCandidates(rows, item, ch, asOf, company) ==
    {n \in DOMAIN rows : /\ rows[n].item_code = item
                         /\ rows[n].channel = ch
                         /\ rows[n].status \in {"Active", "Scheduled"}
                         /\ rows[n].effective_from <= asOf
                         /\ CompanyVisible(rows[n].company, company)
                         /\ ~(rows[n].effective_to # Unset /\ rows[n].effective_to < asOf)}

\* the offer query of the grid
GridOffers(rows, item, asOf, company) ==
    {n \in DOMAIN rows : /\ rows[n].item_code = item
                         /\ rows[n].status \in {"Active", "Scheduled"}
                         /\ rows[n].approval_status = "Approved"
                         /\ rows[n].start_date <= asOf
                         /\ rows[n].end_date >= asOf
                         /\ CompanyVisible(rows[n].company, company)}

\* channels_qs: every channel, or only the requested one
ShownChannels(channel) == IF channel = Null THEN Channels ELSE {channel}

\* the merge loop: one row per item of the page
GridRow(item, channel, asOf, company, pOrder, oOrder) ==
    LET fetched == GridOffers(offer, item, asOf, company)
    IN  [price_name |-> [ch \in ShownChannels(channel) |->
                            LET cands == GridPriceCandidates(price, item, ch, asOf, company)
                            IN  FirstIn(pOrder, LatestFrom(price, cands))],
         offer_names |-> fetched,
         best |-> ComputeBestOffer(OfferList(offer, oOrder, fetched))]

GetReadyReckonerData(channel, asOf, company) ==
    /\ \E pOrder \in Orderings(DOMAIN price), oOrder \in Orderings(DOMAIN offer) :
          res' = [kind |-> "grid", channel |-> channel, as_of |-> asOf, company |-> company,
                  rows |-> [i \in Items |-> GridRow(i, channel, asOf, company, pOrder, oOrder)]]
    /\ UNCHANGED <<serial, tabItem, today, price, itemPrice, offer, pricingRule, outcome, offers, wr>>

\* sorted(attrs.keys())
AttributeOrder == <<"Colour", "Storage">>

\* "|".join(parts), each part f"{attr_name}={attrs[attr_name]}", as the
\* sequence of the pieces the string is put together from
RECURSIVE JoinParts(_, _)
JoinParts(names, attrs) ==
    IF names = <<>> THEN <<>>
    ELSE LET part == <<Head(names), "=", attrs[Head(names)]>>
         IN  IF Len(names) = 1 THEN part
             ELSE part \o <<"|">> \o JoinParts(Tail(names), attrs)

\* slip: the attributes that do not affect the price stay in the key
BuildPriceGroupKeyAllAttrs(i) ==
    LET model    == tabItem[i].ch_model
        nonPrice == NonPriceSpecs(SubCategoryOf(i))
        attrs    == VariantAttrs(i)
        Priced(a) == a \in DOMAIN attrs
        names    == SelectSeq(AttributeOrder, Priced)
    IN  IF nonPrice = {} THEN <<i>>
        ELSE IF names # <<>> THEN <<model, "||">> \o JoinParts(names, attrs)
        ELSE IF model # "" THEN <<model>>
        ELSE <<i>>

\* _build_price_group_key
BuildPriceGroupKey(i) ==
    LET model    == tabItem[i].ch_model
        nonPrice == NonPriceSpecs(SubCategoryOf(i))
        attrs    == VariantAttrs(i)
        Priced(a) == a \in DOMAIN attrs /\ a \notin nonPrice
        names    == SelectSeq(AttributeOrder, Priced)
    IN  IF nonPrice = {} THEN <<i>>
        ELSE IF names # <<>> THEN <<model, "||">> \o JoinParts(names, attrs)
        ELSE IF model # "" THEN <<model>>
        ELSE <<i>>

\* the rows of the page after step 1b: one row per key in the order the
\* keys first occur, the first item of a key is its representative
RECURSIVE GroupedItems(_, _)
GroupedItems(page, rows) ==
    IF page = <<>> THEN rows
    ELSE LET i   == Head(page)
             key == BuildPriceGroupKey(i)
             at  == {k \in DOMAIN rows : rows[k].key = key}
         IN  IF at = {}
             THEN GroupedItems(Tail(page),
                      Append(rows, [key |-> key, item_code |-> i, variant_count |-> 1,
                                    variant_item_codes |-> <<i>>]))
             ELSE LET k == CHOOSE k \in at : TRUE
                  IN  GroupedItems(Tail(page),
                          [rows EXCEPT ![k].variant_item_codes = Append(@, i),
                                       ![k].variant_count = Len(rows[k].variant_item_codes) + 1])

\* get_ready_reckoner_data(group_by_price_specs=1, page=1): the item rows
GetGroupedItems(pageLength) ==
    /\ \E page \in {SubSeq(ItemOrder, 1, pageLength)} :
          res' = [kind |-> "grouped", page |-> page, rows |-> GroupedItems(page, <<>>)]
    /\ UNCHANGED <<serial, tabItem, today, price, itemPrice, offer, pricingRule, outcome, offers, wr>>

\* get_sibling_items
GetSiblingItems(i) ==
    /\ res' = [kind |-> "siblings", item_code |-> i, siblings |-> SiblingItemCodes(i)]
    /\ UNCHANGED <<serial, tabItem, today, price, itemPrice, offer, pricingRule, outcome, offers, wr>>

----------------------------------------------------------------------------
(* The price record store under sequential requests *)

Writers == {"w1", "w2"}

\* a document not yet loaded
NoDoc == NewPriceDoc(Null, Null, Null, 0, 0, 0, Unset, Unset, "Draft")

\* name = 0 is a new document (is_new()); seen is the table content the
\* writer's reads return; locks are the rows it holds FOR UPDATE; committed
\* is the row its save has written
IdleWriter ==
    [pc |-> "idle", name |-> 0, doc |-> NoDoc, seen |-> <<>>, locks |-> {},
     committed |-> 0]

NoOutcome == [err |-> "ok", conflicts |-> NoConflicts]

Init ==
    /\ today = 1
    /\ price = <<>>
    /\ itemPrice = [n \in PriceNames |-> NoItemPrice]
    /\ offer = <<>>
    /\ pricingRule = [n \in OfferNames |-> NoPricingRule]
    /\ outcome = NoOutcome
    /\ res = [kind |-> "none"]
    /\ offers = <<>>
    /\ tabItem = DefaultItems
    /\ serial = NoSerial
    /\ wr = [w \in Writers |-> IdleWriter]

EndDays == {Unset} \cup Days

\* mrp, mop, selling_price of a well-formed request
ValidTriple == <<2, 1, 1>>

\* Requests for item A on the WEB channel; a request changes the dates or
\* the company of a row, not both.
NextInsertPrice ==
    \E co \in {Null, "X"}, from \in Days, to \in EndDays, st \in {"Draft", "Active"} :
        InsertPrice(NewPriceDoc("A", "WEB", co, ValidTriple[1], ValidTriple[2],
                                ValidTriple[3], from, to, st))

NextUpdatePrice ==
    \E n \in DOMAIN price, co \in {Null, "X"}, from \in Days, to \in EndDays :
        /\ \/ co = price[n].company
           \/ from = price[n].effective_from /\ to = price[n].effective_to
        /\ UpdatePrice(n, co, price[n].mrp, price[n].mop, price[n].selling_price, from, to)

NextApprovePrice == \E n \in DOMAIN price : ApprovePrice(n)

NextRejectPrice == \E n \in DOMAIN price : RejectPrice(n)

NextPropagate ==
    \E from \in Days, co \in {"", "X"}, propagate \in BOOLEAN :
        SavePriceWithPropagation("A",
            [channel |-> "WEB", mrp |-> ValidTriple[1], mop |-> ValidTriple[2],
             selling_price |-> ValidTriple[3],
             effective_from |-> from, company |-> co, status |-> "Active"], propagate)

Next ==
    \/ NextInsertPrice
    \/ NextUpdatePrice
    \/ NextApprovePrice
    \/ NextRejectPrice
    \/ NextPropagate
    \/ AutoExpireRecords
    \/ Tick

Spec == Init /\ [][Next]_vars

----------------------------------------------------------------------------
(* Properties of the price record store *)

\* day d lies in the closed interval of row r, an unset end is +infinity
Covers(r, d) ==
    r.effective_from <= d /\ (r.effective_to = Unset \/ d <= r.effective_to)

\* two rows share at least one day; every finite date is at most MaxDay
Intersect(a, b) == \E d \in Days : Covers(a, d) /\ Covers(b, d)

SameKey(a, b) ==
    /\ a.item_code = b.item_code
    /\ a.channel = b.channel
    /\ Coalesce(a.company) = Coalesce(b.company)

NonTerminal(r) == r.status \in {"Active", "Scheduled"}

\* C1: after any sequence of price writes and sweeps, the Active or
\* Scheduled rows of one (item, channel, company) key have pairwise disjoint
\* closed intervals.
NoOverlapInvariant ==
    \A n1, n2 \in DOMAIN price :
        (n1 # n2 /\ SameKey(price[n1], price[n2])
            /\ NonTerminal(price[n1]) /\ NonTerminal(price[n2]))
        => ~Intersect(price[n1], price[n2])

\* two live rows of one key next to each other, after the clock has moved
\* and a sweep has run
NoOverlapWitness ==
    /\ today = MaxDay
    /\ \E n1, n2 \in DOMAIN price :
          /\ n1 # n2 /\ SameKey(price[n1], price[n2])
          /\ NonTerminal(price[n1]) /\ NonTerminal(price[n2])
          /\ price[n1].effective_to = price[n2].effective_from - 1
          /\ price[n2].status = "Active" /\ price[n2].modified = today

----------------------------------------------------------------------------
(* Single create and update requests on the POS channel, which has a       *)
(* linked Price List, with well-formed and ill-formed price fields          *)

NoSellingPrice == <<0, 0, 0>>

WriteDocs ==
    {NewPriceDoc("A", "POS", Null, t[1], t[2], t[3], from, to, st) :
        t \in {ValidTriple, NoSellingPrice}, from \in Days, to \in EndDays,
        st \in {"Draft", "Active"}}

WriteUpdates ==
    {[mrp |-> t[1], mop |-> t[2], selling_price |-> t[3],
      effective_from |-> from, effective_to |-> to] :
        t \in {ValidTriple, NoSellingPrice}, from \in Days, to \in EndDays}

WriteInsert == \E doc \in WriteDocs : InsertPrice(doc)

WriteUpdate ==
    \E n \in DOMAIN price, u \in WriteUpdates :
        UpdatePrice(n, price[n].company, u.mrp, u.mop, u.selling_price,
                    u.effective_from, u.effective_to)

NextWrite == WriteInsert \/ WriteUpdate

SpecWrite == Init /\ [][NextWrite]_vars

\* the Active or Scheduled rows of the key of doc, other than the row being
\* saved, whose interval shares a day with the interval of doc
Intersecting(rows, doc, name) ==
    {n \in DOMAIN rows : /\ n # name
                         /\ SameKey(rows[n], doc)
                         /\ NonTerminal(rows[n])
                         /\ Intersect(rows[n], doc)}

UpdatedDoc(n, u) ==
    [price[n] EXCEPT !.mrp = u.mrp, !.mop = u.mop, !.selling_price = u.selling_price,
                     !.effective_from = u.effective_from, !.effective_to = u.effective_to]

RejectedOverlap(doc, name) ==
    /\ outcome'.err = "OverlappingPriceError"
    /\ outcome'.conflicts = Intersecting(price, doc, name)
    /\ price' = price
    /\ itemPrice' = itemPrice

\* C3 as stated: every create or update whose interval intersects a live row
\* of its key raises OverlappingPriceError naming every such row and leaves
\* the price table and the Item Price table as they were.
OverlapAlwaysOverlapError ==
    [][ /\ \A doc \in WriteDocs :
            (InsertPrice(doc) /\ Intersecting(price, doc, 0) # {})
                => RejectedOverlap(doc, 0)
        /\ \A n \in DOMAIN price, u \in WriteUpdates :
            (UpdatePrice(n, price[n].company, u.mrp, u.mop, u.selling_price,
                         u.effective_from, u.effective_to)
             /\ Intersecting(price, UpdatedDoc(n, u), n) # {})
                => RejectedOverlap(UpdatedDoc(n, u), n) ]_vars

RejectedUntouched ==
    /\ outcome'.err # "ok"
    /\ price' = price
    /\ itemPrice' = itemPrice

\* C3 as amended: such a write is always rejected with nothing persisted; the
\* error is OverlappingPriceError naming every conflicting row when the price
\* fields pass the positive-price and hierarchy checks that run first.
OverlapRejectedUntouched ==
    [][ /\ \A doc \in WriteDocs :
            (InsertPrice(doc) /\ Intersecting(price, doc, 0) # {})
                => /\ RejectedUntouched
                   /\ (PositivePricesOk(doc) /\ PriceHierarchyOk(doc))
                         => RejectedOverlap(doc, 0)
        /\ \A n \in DOMAIN price, u \in WriteUpdates :
            (UpdatePrice(n, price[n].company, u.mrp, u.mop, u.selling_price,
                         u.effective_from, u.effective_to)
             /\ Intersecting(price, UpdatedDoc(n, u), n) # {})
                => /\ RejectedUntouched
                   /\ (PositivePricesOk(UpdatedDoc(n, u)) /\ PriceHierarchyOk(UpdatedDoc(n, u)))
                         => RejectedOverlap(UpdatedDoc(n, u), n) ]_vars

\* a request was turned down naming two rows, both synced to the sink
OverlapRejectedWitness ==
    /\ outcome.err = "OverlappingPriceError"
    /\ Cardinality(outcome.conflicts) = 2
    /\ \A n \in outcome.conflicts : itemPrice[n].exists

----------------------------------------------------------------------------
(* Requests with every combination of price fields; the dates are fixed    *)

PriceValues == (0 - 1)..MaxPrice

HierDocs ==
    {NewPriceDoc("A", "POS", Null, mrp, mop, sp, 1, Unset, st) :
        mrp \in PriceValues, mop \in PriceValues, sp \in PriceValues,
        st \in {"Draft", "Active"}}

HierInsert == \E doc \in HierDocs : InsertPrice(doc)

HierUpdate ==
    \E n \in DOMAIN price, mrp \in PriceValues, mop \in PriceValues, sp \in PriceValues :
        UpdatePrice(n, price[n].company, mrp, mop, sp,
                    price[n].effective_from, price[n].effective_to)

HierPropagate ==
    \E mrp \in PriceValues, mop \in PriceValues, sp \in PriceValues :
        SavePriceWithPropagation("A",
            [channel |-> "POS", mrp |-> mrp, mop |-> mop, selling_price |-> sp,
             effective_from |-> 1, company |-> "", status |-> "Active"], TRUE)

NextHier == HierInsert \/ HierUpdate \/ NextApprovePrice \/ HierPropagate

SpecHier == Init /\ [][NextHier]_vars

AllSet(r) == r.mrp # 0 /\ r.mop # 0 /\ r.selling_price # 0

HierarchyHolds(r) ==
    /\ r.selling_price > 0
    /\ AllSet(r) => (r.mrp >= r.mop /\ r.mop >= r.selling_price)

PriceError == {"InvalidPriceError", "InvalidPriceHierarchyError"}

\* C4: every stored row has selling_price > 0 and, with all three fields
\* set, mrp >= mop >= selling_price; a create or update whose price fields
\* break this raises InvalidPriceError or InvalidPriceHierarchyError and
\* stores nothing.
HierarchyInvariant ==
    /\ \A n \in DOMAIN price : HierarchyHolds(price[n])
    /\ \A doc \in HierDocs :
          ~HierarchyHolds(doc) =>
              (InsertSave(doc).err \in PriceError /\ InsertSave(doc).rows = price)
    /\ \A n \in DOMAIN price, mrp \in PriceValues, mop \in PriceValues, sp \in PriceValues :
          ~HierarchyHolds([mrp |-> mrp, mop |-> mop, selling_price |-> sp]) =>
              LET r == UpdateSave(n, price[n].company, mrp, mop, sp,
                                  price[n].effective_from, price[n].effective_to)
              IN  r.err \in PriceError /\ r.rows = price

\* rows with all three fields set are stored for A and its sibling B, and
\* the last request was turned down for its hierarchy
HierarchyWitness ==
    /\ outcome.err = "InvalidPriceHierarchyError"
    /\ \E n1, n2 \in DOMAIN price :
          /\ price[n1].item_code = "A" /\ price[n2].item_code = "B"
          /\ AllSet(price[n1]) /\ AllSet(price[n2])
          /\ price[n1].mrp > price[n1].selling_price

----------------------------------------------------------------------------
(* Two requests saving price records of one key at the same time.  Each     *)
(* request runs in its own database transaction: load or build the         *)
(* document, take the row locks (saved documents only), run the overlap     *)
(* query, then write and commit.                                            *)

\* a stored Active or Scheduled row of (A, WEB, X)
StoredRow(from, to) ==
    LET doc == NewPriceDoc("A", "WEB", "X", ValidTriple[1], ValidTriple[2],
                           ValidTriple[3], from, to, "Active")
    IN  [doc EXCEPT !.status = StatusFromDates(doc, 1), !.modified = 1]

\* the tables the requests start from: empty, one row, two disjoint rows
ConcStores == {<<>>, <<StoredRow(1, 1)>>, <<StoredRow(1, 1), StoredRow(MaxDay, MaxDay)>>}

InitConc ==
    /\ today = 1
    /\ price \in ConcStores
    /\ itemPrice = [n \in PriceNames |-> NoItemPrice]
    /\ offer = <<>>
    /\ pricingRule = [n \in OfferNames |-> NoPricingRule]
    /\ outcome = NoOutcome
    /\ res = [kind |-> "none"]
    /\ offers = <<>>
    /\ tabItem = DefaultItems
    /\ serial = NoSerial
    /\ wr = [w \in Writers |-> IdleWriter]

\* the rows selected by the SELECT ... FOR UPDATE statement
\* (company = %s matches no row when the document's company is NULL)
LockedRows(rows, doc, name) ==
    {n \in DOMAIN rows :
        /\ rows[n].item_code = doc.item_code
        /\ rows[n].channel = doc.channel
        /\ doc.company # Null /\ rows[n].company = doc.company
        /\ n # name}

HeldByOther(w, n) == \E o \in Writers \ {w} : n \in wr[o].locks

\* frappe.new_doc / frappe.get_doc and the field assignments; the
\* transaction's snapshot is the table as it is now
Begin(w, name, from, to) ==
    /\ wr[w].pc = "idle"
    /\ name = 0 \/ name \in DOMAIN price
    /\ name = 0 => Len(price) < Cardinality(PriceNames)
    /\ ~(to # Unset /\ to < from)
    /\ wr' = [wr EXCEPT ![w] =
                [pc |-> "begun", name |-> name,
                 doc |-> IF name = 0
                         THEN NewPriceDoc("A", "WEB", "X", ValidTriple[1], ValidTriple[2],
                                          ValidTriple[3], from, to, "Active")
                         ELSE [price[name] EXCEPT !.effective_from = from,
                                                  !.effective_to = to],
                 seen |-> price, locks |-> {}, committed |-> 0]]
    /\ UNCHANGED <<serial, tabItem, today, price, itemPrice, offer, pricingRule, outcome, res, offers>>

\* if not self.is_new(): SELECT ... FOR UPDATE; waits while another
\* transaction holds one of the rows
Lock(w) ==
    /\ wr[w].pc = "begun"
    /\ wr[w].name # 0
    /\ \A n \in LockedRows(price, wr[w].doc, wr[w].name) : ~HeldByOther(w, n)
    /\ wr' = [wr EXCEPT ![w].pc = "locked",
                        ![w].locks = LockedRows(price, wr[w].doc, wr[w].name)]
    /\ UNCHANGED <<serial, tabItem, today, price, itemPrice, offer, pricingRule, outcome, res, offers>>

\* frappe.get_all: a non-locking read, which returns the transaction's
\* snapshot or the committed table, depending on the isolation level
Read(w) ==
    /\ \/ wr[w].pc = "begun" /\ wr[w].name = 0
       \/ wr[w].pc = "locked"
    /\ \E view \in {wr[w].seen, price} :
           wr' = [wr EXCEPT ![w].pc = "read", ![w].seen = view]
    /\ UNCHANGED <<serial, tabItem, today, price, itemPrice, offer, pricingRule, outcome, res, offers>>

\* the conflict test on the fetched rows, the row write, on_update, commit;
\* the row write waits while another transaction holds the row
Write(w) ==
    /\ wr[w].pc = "read"
    /\ wr[w].name # 0 => ~HeldByOther(w, wr[w].name)
    /\ \E name \in {IF wr[w].name = 0 THEN Len(price) + 1 ELSE wr[w].name} :
         \E r \in {SavePriceDoc(price, itemPrice, wr[w].seen, wr[w].doc, name, today)} :
           /\ (r.err = "ok" /\ wr[w].name = 0) => Len(price) < Cardinality(PriceNames)
           /\ price' = r.rows
           /\ itemPrice' = r.ips
           /\ outcome' = Result(r)
           /\ wr' = [wr EXCEPT ![w].pc = "done", ![w].locks = {},
                               ![w].committed = IF r.err = "ok" THEN name ELSE 0]
    /\ UNCHANGED <<serial, tabItem, today, offer, pricingRule, res, offers>>

\* a request waiting for a row lock is ended by the database (deadlock
\* victim, lock wait timeout); its transaction is rolled back
Abort(w) ==
    /\ wr[w].pc = "read"
    /\ wr[w].name # 0 /\ HeldByOther(w, wr[w].name)
    /\ wr' = [wr EXCEPT ![w].pc = "done", ![w].locks = {}]
    /\ outcome' = [err |-> "QueryDeadlockError", conflicts |-> NoConflicts]
    /\ UNCHANGED <<serial, tabItem, today, price, itemPrice, offer, pricingRule, res, offers>>

NextBegin ==
    \E w \in Writers, name \in {0} \cup PriceNames, from \in Days, to \in EndDays :
        Begin(w, name, from, to)

NextLock == \E w \in Writers : Lock(w)

NextRead == \E w \in Writers : Read(w)

NextWriterWrite == \E w \in Writers : Write(w)

NextAbort == \E w \in Writers : Abort(w)

NextConc == NextBegin \/ NextLock \/ NextRead \/ NextWriterWrite \/ NextAbort

SpecConc == InitConc /\ [][NextConc]_vars

\* C2: two requests for one key with intersecting intervals are never both
\* stored as Active or Scheduled rows, whatever the interleaving of their
\* steps, for new documents and for updates.
ConcurrentWritersExclusive ==
    \A w1, w2 \in Writers :
        (w1 # w2 /\ wr[w1].committed # 0 /\ wr[w2].committed # 0
            /\ wr[w1].committed # wr[w2].committed)
        => LET a == price[wr[w1].committed]
               b == price[wr[w2].committed]
           IN  ~(SameKey(a, b) /\ NonTerminal(a) /\ NonTerminal(b) /\ Intersect(a, b))

----------------------------------------------------------------------------
(* The offer resolver applied to every short list of offers *)

\* offer_type and value_type as the form lets them be combined
OfferKinds ==
    {<<"Bank Offer", "Percentage">>, <<"Bank Offer", "Amount">>,
     <<"Price Override", "Price Override">>, <<"Price Override", "Amount">>}

\* the rows frappe.get_all hands to the resolver; priority 0 is a row
\* whose priority was left empty
OfferRows ==
    {[offer_type |-> k[1], value_type |-> k[2], value |-> v,
      priority |-> p, stackable |-> st] :
        k \in OfferKinds, v \in {10, 20}, p \in 0..MaxPriority, st \in BOOLEAN}

OfferLists == UNION {[1..n -> OfferRows] : n \in 0..MaxOffers}

InitResolve ==
    /\ today = 1
    /\ price = <<>>
    /\ itemPrice = [n \in PriceNames |-> NoItemPrice]
    /\ offer = <<>>
    /\ pricingRule = [n \in OfferNames |-> NoPricingRule]
    /\ outcome = NoOutcome
    /\ res = [kind |-> "none"]
    /\ offers \in OfferLists
    /\ tabItem = DefaultItems
    /\ serial = NoSerial
    /\ wr = [w \in Writers |-> IdleWriter]

\* best = _compute_best_offer(offers)
Resolve ==
    /\ res.kind = "none"
    /\ res' = [kind |-> "best", best |-> ComputeBestOffer(offers)]
    /\ UNCHANGED <<serial, tabItem, today, price, itemPrice, offer, pricingRule, outcome, offers, wr>>

NextResolve == Resolve

SpecResolve == InitResolve /\ [][NextResolve]_vars

ValueOverrides == {i \in DOMAIN offers : offers[i].value_type = "Price Override"}

\* C5: when the list holds offers with value_type Price Override, of
\* pairwise distinct priorities, the returned price is the value of the one
\* with the highest priority, wherever it stands in the list.
OverridePrecedence ==
    (/\ res.kind = "best"
     /\ ValueOverrides # {}
     /\ \A i, j \in ValueOverrides : i # j => offers[i].priority # offers[j].priority)
    => \E i \in ValueOverrides :
          /\ \A j \in ValueOverrides : offers[j].priority <= offers[i].priority
          /\ res.best.price = offers[i].value

NonStackable == {i \in DOMAIN offers : ~offers[i].stackable}

RECURSIVE SumValues(_, _)
\* the sum of the values of the offers at the positions in S
SumValues(S, vtype) ==
    IF S = {} THEN 0
    ELSE LET i == CHOOSE x \in S : TRUE
         IN  (IF offers[i].value_type = vtype THEN offers[i].value ELSE 0)
             + SumValues(S \ {i}, vtype)

\* C6: without a price override in the list, each total is the sum of the
\* stackable offers of its value type plus the non-stackable offer of the
\* highest priority, if that one is of the value type; no other
\* non-stackable offer is counted.
StackingTotals ==
    (/\ res.kind = "best"
     /\ ValueOverrides = {}
     /\ \A i, j \in NonStackable : i # j => offers[i].priority # offers[j].priority)
    => LET first == {i \in NonStackable :
                        \A j \in NonStackable : offers[j].priority <= offers[i].priority}
           counted == (DOMAIN offers \ NonStackable) \cup first
       IN  /\ res.best.total_pct = SumValues(counted, "Percentage")
           /\ res.best.total_amt = SumValues(counted, "Amount")

\* C7: a list without an offer of value_type Price Override, the empty list
\* included, yields no price.
PriceOnlyFromOverride ==
    (res.kind = "best" /\ ValueOverrides = {}) => res.best.price = NonePrice

----------------------------------------------------------------------------
(* Price lookups for item A on the WEB channel, between writes and sweeps *)

AsOfDays == 1..(MaxDay + 1)

QueryInsert ==
    \E co \in {Null, "X"}, from \in Days, to \in EndDays :
        InsertPrice(NewPriceDoc("A", "WEB", co, ValidTriple[1], ValidTriple[2],
                                ValidTriple[3], from, to, "Active"))

QueryLookup == \E asOf \in AsOfDays : GetActivePrice("A", "WEB", asOf)

NextQuery == QueryInsert \/ NextRejectPrice \/ Tick \/ AutoExpireRecords \/ QueryLookup

SpecQuery == Init /\ [][NextQuery]_vars

\* the rows that qualify for a lookup of (item, ch) on day asOf
Qualifying(item, ch, asOf) ==
    {n \in DOMAIN price :
        /\ price[n].item_code = item /\ price[n].channel = ch
        /\ NonTerminal(price[n])
        /\ price[n].effective_from <= asOf
        /\ (price[n].effective_to = Unset \/ price[n].effective_to >= asOf)}

\* C8: a lookup reports found exactly when some Active or Scheduled row of
\* (item, channel) covers as_of, and the row it returns is a qualifying row
\* with the latest effective_from.
LookupFindsQualifying ==
    res.kind = "single" =>
        LET q == Qualifying(res.item, res.channel, res.as_of)
        IN  /\ res.found = (q # {})
            /\ res.found =>
                  /\ res.price_name \in q
                  /\ \A m \in q : price[m].effective_from <= price[res.price_name].effective_from

----------------------------------------------------------------------------
(* Prices and offers of item A under several companies and channels, read   *)
(* through the grid and through the single-item lookup                      *)

GridInsertPrice ==
    \E co \in {Null, "Y"} :
        InsertPrice(NewPriceDoc("A", "WEB", co, ValidTriple[1], ValidTriple[2],
                                ValidTriple[3], 1, Unset, "Active"))

\* channel and company of the offers created
OfferScopes == {<<"POS", Null>>, <<Null, "X">>, <<"WEB", "Y">>}

\* offers that run from day 1 to day MaxDay
GridInsertOffer ==
    \E sc \in OfferScopes :
        InsertOffer(NewOfferDoc("A", sc[1], sc[2], "Bank Offer", "Percentage", 10, 1, TRUE,
                                1, MaxDay))

GridApproveOffer == \E n \in DOMAIN offer : ApproveOffer(n)

GridRejectOffer == \E n \in DOMAIN offer : RejectOffer(n)

GridRead ==
    \E asOf \in AsOfDays, company \in {"", "X"} : GetReadyReckonerData("WEB", asOf, company)

GridLookup == \E asOf \in AsOfDays : GetActivePrice("A", "WEB", asOf)

NextGrid ==
    \/ GridInsertPrice \/ GridInsertOffer \/ GridApproveOffer \/ GridRejectOffer
    \/ GridRead \/ GridLookup

SpecGrid == Init /\ [][NextGrid]_vars

\* a record of company c may be used under the company filter x
CompanyAllowed(c, x) == x = "" \/ c = Null \/ c = x

\* C9: under a company filter X the grid uses a price or offer record only
\* if its company is unset or X; the records it uses are those it would
\* use without a filter, less the records of other companies, so that a
\* record without a company is used under every filter.
CompanyScoping ==
    res.kind = "grid" =>
        \A i \in Items :
            /\ res.rows[i].offer_names =
                  {n \in GridOffers(offer, i, res.as_of, "") :
                      CompanyAllowed(offer[n].company, res.company)}
            /\ \A ch \in DOMAIN res.rows[i].price_name :
                  LET open == {n \in GridPriceCandidates(price, i, ch, res.as_of, "") :
                                  CompanyAllowed(price[n].company, res.company)}
                      used == res.rows[i].price_name[ch]
                  IN  IF open = {} THEN used = 0
                      ELSE used \in LatestFrom(price, open)

\* a grid read under company X that uses a price without a company and an
\* offer of X, while a live approved offer and a live price of Y are left out
CompanyScopingWitness ==
    /\ res.kind = "grid" /\ res.company = "X"
    /\ res.rows["A"].price_name["WEB"] # 0
    /\ price[res.rows["A"].price_name["WEB"]].company = Null
    /\ \E n \in DOMAIN price : price[n].company = "Y" /\ NonTerminal(price[n])
    /\ \E n \in res.rows["A"].offer_names : offer[n].company = "X"
    /\ \E n \in DOMAIN offer :
          /\ offer[n].company = "Y" /\ offer[n].approval_status = "Approved"
          /\ offer[n].status = "Active"
          /\ offer[n].start_date <= res.as_of /\ offer[n].end_date >= res.as_of
          /\ n \notin res.rows["A"].offer_names

\* the conditions an offer must meet to count for a request
OfferQualifies(o, channel, asOf, company) ==
    /\ o.status \in {"Active", "Scheduled"}
    /\ o.approval_status = "Approved"
    /\ o.start_date <= asOf /\ asOf <= o.end_date
    /\ o.channel = Null \/ o.channel = channel
    /\ CompanyAllowed(o.company, company)

\* C10: every offer counted in a single-item result or in a grid row is
\* Active or Scheduled, Approved, covers as_of, and has the requested
\* channel and company or none.
ContributingOffersQualify ==
    /\ res.kind = "single" =>
          \A n \in res.offer_names : OfferQualifies(offer[n], res.channel, res.as_of, "")
    /\ res.kind = "grid" =>
          \A i \in Items : \A n \in res.rows[i].offer_names :
              OfferQualifies(offer[n], res.channel, res.as_of, res.company)

----------------------------------------------------------------------------
(* Properties of the expiry sweep *)

\* the status a price row has after a sweep on day d
SweptStatus(r, d) ==
    IF NonTerminal(r) /\ r.effective_to # Unset /\ r.effective_to < d THEN "Expired"
    ELSE IF /\ r.status = "Scheduled" /\ r.effective_from <= d
            /\ (r.effective_to = Unset \/ d <= r.effective_to)
    THEN "Active"
    ELSE r.status

\* C11: a sweep on day d expires the Active or Scheduled price rows that
\* ended before d, activates the Scheduled rows whose interval holds d, and
\* changes no other status, date or price field of any price row.
SweepMovesByDate ==
    [][AutoExpireRecords =>
          /\ DOMAIN price' = DOMAIN price
          /\ \A n \in DOMAIN price :
                price'[n] = [price[n] EXCEPT !.status = SweptStatus(price[n], today),
                                             !.modified = price'[n].modified]]_vars

\* after a sweep on the last day: one row expired by it and one activated
SweepMovesWitness ==
    /\ today = MaxDay
    /\ outcome = NoOutcome
    /\ \E n1, n2 \in DOMAIN price :
          /\ price[n1].status = "Expired" /\ price[n1].modified = today
          /\ price[n1].effective_to # Unset /\ price[n1].effective_to < today
          /\ price[n2].status = "Active" /\ price[n2].modified = today
          /\ price[n2].effective_from = today

\* the wall clock moves to the next day, up to the day after MaxDay
NextDay ==
    /\ today <= MaxDay
    /\ today' = today + 1
    /\ UNCHANGED <<serial, tabItem, price, itemPrice, offer, pricingRule, outcome, res, offers, wr>>

\* Prices and offers of item A on the POS channel, which has a linked
\* Price List, while the days pass; the offers start on day 1
SweepInsertPrice ==
    \E from \in Days, to \in Days :
        InsertPrice(NewPriceDoc("A", "POS", Null, ValidTriple[1], ValidTriple[2],
                                ValidTriple[3], from, to, "Active"))

SweepInsertOffer ==
    \E end \in Days :
        InsertOffer(NewOfferDoc("A", "POS", Null, "Bank Offer", "Percentage", 10, 1, TRUE,
                                1, end))

NextSweep ==
    \/ SweepInsertPrice \/ SweepInsertOffer \/ GridApproveOffer
    \/ NextDay \/ AutoExpireRecords

SpecSweep == Init /\ [][NextSweep]_vars

\* the commercial tag rows a sweep can meet
TagRows ==
    [status : {"Active", "Expired"}, effective_to : EndDays, modified : Days]

\* C12: a second sweep at the same date and time changes nothing: every
\* price and offer row and every Item Price and Pricing Rule is as the first
\* sweep left it, and so is every commercial tag row.
SweepIdempotent ==
    [][AutoExpireRecords =>
          /\ SweepPrices(price', today') = price'
          /\ SweepItemPrices(itemPrice', price', today') = itemPrice'
          /\ SweepOffers(offer', today') = offer'
          /\ SweepPricingRules(pricingRule', offer', today') = pricingRule'
          /\ \A t \in TagRows :
                SweepTag(SweepTag(t, today), today) = SweepTag(t, today)]_vars

\* after a sweep that expired a linked price and an offer with a rule
SweepIdempotentWitness ==
    /\ outcome = NoOutcome
    /\ \E n \in DOMAIN price :
          /\ price[n].status = "Expired" /\ price[n].modified = today
          /\ price[n].erp_item_price /\ itemPrice[n].exists
          /\ itemPrice[n].valid_upto # Unset /\ itemPrice[n].valid_upto <= today
    /\ \E n \in DOMAIN offer :
          /\ offer[n].status = "Expired" /\ offer[n].modified = today
          /\ pricingRule[n].exists /\ pricingRule[n].disable

----------------------------------------------------------------------------
(* Properties of approve on a price record *)

\* Draft prices of item A on either channel are approved while the days pass
ApproveInsertDraft ==
    \E ch \in Channels, from \in Days, to \in EndDays :
        InsertPrice(NewPriceDoc("A", ch, Null, ValidTriple[1], ValidTriple[2],
                                ValidTriple[3], from, to, "Draft"))

NextApprove ==
    \/ ApproveInsertDraft \/ NextApprovePrice \/ NextDay

SpecApprove == Init /\ [][NextApprove]_vars

\* the Item Price an approved row n is pushed as
PushedItemPrice(r) ==
    [exists |-> TRUE, price_list_rate |-> r.selling_price,
     valid_from |-> r.effective_from, valid_upto |-> r.effective_to]

----------------------------------------------------------------------------
(* Properties of the offer lifecycle *)

\* Bank offers of item A, on the POS channel or with no channel, are
\* created, re-dated, approved, rejected and swept while the days pass
OfferInsert ==
    \E ch \in {"POS", Null}, start \in AsOfDays, end \in AsOfDays :
        InsertOffer(NewOfferDoc("A", ch, Null, "Bank Offer", "Percentage", 10, 1, TRUE,
                                start, end))

OfferUpdate ==
    \E n \in DOMAIN offer, start \in AsOfDays, end \in AsOfDays : UpdateOffer(n, start, end)

NextOffer ==
    \/ OfferInsert \/ OfferUpdate \/ GridApproveOffer \/ GridRejectOffer
    \/ NextDay \/ AutoExpireRecords

SpecOffer == Init /\ [][NextOffer]_vars

Rejected(o) == o.approval_status = "Rejected" /\ o.status = "Cancelled"

RuleEnabled(pr) == pr.exists /\ ~pr.disable

\* C14: a rejected offer keeps its status and its approval_status in every
\* later step, and its Pricing Rule is not enabled by any later step.
RejectedOfferTerminal ==
    [][\A n \in DOMAIN offer :
          Rejected(offer[n]) =>
              /\ Rejected(offer'[n])
              /\ RuleEnabled(pricingRule'[n]) => RuleEnabled(pricingRule[n])]_vars

\* C15: no two item-scoped offers that are Active or Scheduled and have the
\* same item, channel (unset counted as a value) and offer type have
\* intersecting [start, end] intervals.
OfferNoOverlap ==
    \A a, b \in DOMAIN offer :
        (/\ a # b
         /\ offer[a].offer_level = "Item" /\ offer[b].offer_level = "Item"
         /\ offer[a].status \in {"Active", "Scheduled"}
         /\ offer[b].status \in {"Active", "Scheduled"}
         /\ offer[a].item_code = offer[b].item_code
         /\ offer[a].channel = offer[b].channel
         /\ offer[a].offer_type = offer[b].offer_type)
        => \/ offer[a].end_date < offer[b].start_date
           \/ offer[b].end_date < offer[a].start_date

\* the same for offers that both name a channel
OfferNoOverlapWithChannel ==
    \A a, b \in DOMAIN offer :
        (/\ a # b
         /\ offer[a].channel # Null
         /\ offer[a].status \in {"Active", "Scheduled"}
         /\ offer[b].status \in {"Active", "Scheduled"}
         /\ offer[a].item_code = offer[b].item_code
         /\ offer[a].channel = offer[b].channel
         /\ offer[a].offer_type = offer[b].offer_type)
        => \/ offer[a].end_date < offer[b].start_date
           \/ offer[b].end_date < offer[a].start_date

----------------------------------------------------------------------------
(* Idempotence of approve and reject *)

\* Draft prices or offers of item A on the POS channel are approved and
\* rejected while the days pass; a run works on prices or on offers (the
\* operations on one table do not read or write the other)
IdemInsertPrice ==
    /\ offer = <<>>
    /\ \E from \in Days, to \in EndDays :
          InsertPrice(NewPriceDoc("A", "POS", Null, ValidTriple[1], ValidTriple[2],
                                  ValidTriple[3], from, to, "Draft"))

IdemInsertOffer ==
    /\ price = <<>>
    /\ SweepInsertOffer

NextIdem ==
    \/ IdemInsertPrice \/ NextApprovePrice \/ NextRejectPrice
    \/ IdemInsertOffer \/ GridApproveOffer \/ GridRejectOffer
    \/ NextDay

SpecIdem == Init /\ [][NextIdem]_vars

\* the second call of a price operation leaves row n and its Item Price as
\* the first call left them, and raises no error the first did not raise
SamePriceOutcome(r1, r2, n) ==
    /\ r2.err = r1.err
    /\ r2.rows[n].status = r1.rows[n].status
    /\ r2.rows[n].erp_item_price = r1.rows[n].erp_item_price
    /\ r2.ips[n] = r1.ips[n]

SameOfferOutcome(r1, r2, n) ==
    /\ r2.err = r1.err
    /\ r2.rows[n].status = r1.rows[n].status
    /\ r2.rows[n].approval_status = r1.rows[n].approval_status
    /\ r2.rows[n].erp_pricing_rule = r1.rows[n].erp_pricing_rule
    /\ r2.prs[n] = r1.prs[n]

\* C16: in every state, approving or rejecting a price or an offer twice on
\* the same day leaves its status, its approval state and its Item Price or
\* Pricing Rule as the first call left them.
ApproveRejectIdempotent ==
    /\ \A n \in DOMAIN price :
          /\ LET r1 == ApprovePriceResult(price, itemPrice, n, today)
             IN  SamePriceOutcome(r1, ApprovePriceResult(r1.rows, r1.ips, n, today), n)
          /\ LET r1 == RejectPriceResult(price, itemPrice, n, today)
             IN  SamePriceOutcome(r1, RejectPriceResult(r1.rows, r1.ips, n, today), n)
    /\ \A n \in DOMAIN offer :
          /\ LET r1 == ApproveOfferResult(offer, pricingRule, n, today)
             IN  SameOfferOutcome(r1, ApproveOfferResult(r1.rows, r1.prs, n, today), n)
          /\ LET r1 == RejectOfferResult(offer, pricingRule, n, today)
             IN  SameOfferOutcome(r1, RejectOfferResult(r1.rows, r1.prs, n, today), n)

\* an approved price pushed to the Item Price, which a second approve and
\* a reject both accept today, next to a Draft price whose approve succeeds
ApproveRejectWitness ==
    \E n, m \in DOMAIN price :
        /\ price[n].status = "Draft"
        /\ ApprovePriceResult(price, itemPrice, n, today).err = "ok"
        /\ ApprovePriceResult(price, itemPrice, n, today).rows[n].status = "Scheduled"
        /\ price[m].status = "Active" /\ itemPrice[m].exists
        /\ ApprovePriceResult(price, itemPrice, m, today).err = "ok"
        /\ RejectPriceResult(price, itemPrice, m, today).err = "ok"

\* an approved offer with an enabled Pricing Rule, which a second approve
\* and a reject both accept today, next to a rejected offer
ApproveRejectOfferWitness ==
    \E n, m \in DOMAIN offer :
        /\ offer[n].approval_status = "Rejected"
        /\ offer[m].status = "Active" /\ RuleEnabled(pricingRule[m])
        /\ ApproveOfferResult(offer, pricingRule, m, today).err = "ok"
        /\ RejectOfferResult(offer, pricingRule, m, today).err = "ok"

----------------------------------------------------------------------------
(* The sweep and the sink *)

NextSweepFail ==
    \/ NextSweep \/ AutoExpireRecordsSinkFails

SpecSweepFail == Init /\ [][NextSweepFail]_vars

\* C17: a sweep whose write to the sink fails still leaves every price and
\* offer row with the status the sweep gives it.
SweepSurvivesSinkFailure ==
    [][AutoExpireRecordsSinkFails =>
          /\ price' = SweepPrices(price, today)
          /\ offer' = SweepOffers(offer, today)]_vars

\* C18: after a sweep, every price row it moved to Expired that is linked
\* to an Item Price has that Item Price end today or earlier, and every
\* offer row it moved to Expired has its linked Pricing Rule disabled.
SweepRetractsExpired ==
    [][AutoExpireRecords =>
          /\ \A n \in DOMAIN price :
                (/\ price[n].status # "Expired" /\ price'[n].status = "Expired"
                 /\ price'[n].erp_item_price /\ itemPrice'[n].exists)
                => /\ itemPrice'[n].valid_upto # Unset
                   /\ itemPrice'[n].valid_upto <= today
          /\ \A n \in DOMAIN offer :
                (/\ offer[n].status # "Expired" /\ offer'[n].status = "Expired"
                 /\ offer'[n].erp_pricing_rule /\ pricingRule'[n].exists)
                => pricingRule'[n].disable]_vars

\* after a sweep on the day after MaxDay that expired a linked price and an
\* offer whose rule was enabled by its approval
SweepRetractsWitness ==
    /\ today = MaxDay + 1
    /\ \E n \in DOMAIN price :
          /\ price[n].status = "Expired" /\ price[n].modified = today
          /\ price[n].erp_item_price /\ itemPrice[n].exists
          /\ itemPrice[n].valid_upto = price[n].effective_to
    /\ \E n \in DOMAIN offer :
          /\ offer[n].status = "Expired" /\ offer[n].modified = today
          /\ offer[n].erp_pricing_rule
          /\ pricingRule[n].exists /\ pricingRule[n].disable
          /\ pricingRule[n].valid_upto = MaxDay

----------------------------------------------------------------------------
(* Variant grouping of the grid and the siblings of propagation *)

Templates == {"T1", "T2"}

\* one template per model
ModelOf(t) == IF t = "T1" THEN "M1" ELSE "M2"

\* a template: its sub-category and the attributes its variants vary in
TemplateConfigs ==
    [sc : {"Phones", "Cases"},
     attributes : {{"Colour"}, {"Storage"}, {"Colour", "Storage"}}]

\* a variant: its template and its attribute values
VariantChoices ==
    [template : Templates, Colour : {"Red", "Blue"}, Storage : {"128", "256"}]

\* the Item table of templates cfg and variants ch: a variant copies model
\* and sub-category from its template and has a value for each of the
\* template's attributes
ItemTable(cfg, ch) ==
    [i \in Items |->
        ItemRow(ModelOf(ch[i].template), cfg[ch[i].template].sc, ch[i].template,
                [a \in cfg[ch[i].template].attributes |-> ch[i][a]])]

\* no two variants of a template have the same attribute values
DistinctVariants(tbl) ==
    \A i, j \in Items :
        (i # j /\ tbl[i].variant_of = tbl[j].variant_of) => tbl[i].attrs # tbl[j].attrs

ItemTables ==
    {tbl \in {ItemTable(cfg, ch) : cfg \in [Templates -> TemplateConfigs],
                                   ch \in [Items -> VariantChoices]} :
        DistinctVariants(tbl)}

InitGroup ==
    /\ today = 1
    /\ price = <<>>
    /\ itemPrice = [n \in PriceNames |-> NoItemPrice]
    /\ offer = <<>>
    /\ pricingRule = [n \in OfferNames |-> NoPricingRule]
    /\ outcome = NoOutcome
    /\ res = [kind |-> "none"]
    /\ offers = <<>>
    /\ tabItem \in ItemTables
    /\ serial = NoSerial
    /\ wr = [w \in Writers |-> IdleWriter]

PageLengths == {Len(ItemOrder) - 1, Len(ItemOrder)}

GroupRead == \E n \in PageLengths : GetGroupedItems(n)

GroupSiblings == \E i \in Items : GetSiblingItems(i)

NextGroup == GroupRead \/ GroupSiblings

SpecGroup == InitGroup /\ [][NextGroup]_vars

\* the attribute values of item i that affect the price in its sub-category
PriceAttrs(i) ==
    [a \in (DOMAIN tabItem[i].attrs) \ NonPriceSpecs(tabItem[i].ch_sub_category) |->
        tabItem[i].attrs[a]]

SamePriceGroup(i, j) ==
    /\ tabItem[i].ch_model = tabItem[j].ch_model
    /\ PriceAttrs(i) = PriceAttrs(j)

Members(row) == {row.variant_item_codes[k] : k \in DOMAIN row.variant_item_codes}

\* C19: in grouping mode every item of the page is in exactly one row; the
\* items in the row of item i are the items of the page with the model and
\* the price-affecting attribute values of i, variant_count is their number,
\* and no row holds two items that differ in a price-affecting attribute.
GroupingCollapses ==
    res.kind = "grouped" =>
        LET P == {res.page[k] : k \in DOMAIN res.page}
        IN  /\ \A i \in P : Cardinality({k \in DOMAIN res.rows : i \in Members(res.rows[k])}) = 1
            /\ \A k \in DOMAIN res.rows :
                  LET row == res.rows[k]
                  IN  /\ row.item_code \in Members(row)
                      /\ Members(row) \subseteq P
                      /\ Members(row) = {j \in P : SamePriceGroup(row.item_code, j)}
                      /\ row.variant_count = Cardinality(Members(row))
                      /\ row.variant_count = Len(row.variant_item_codes)
                      /\ \A i, j \in Members(row) : PriceAttrs(i) = PriceAttrs(j)

\* a page of three variants of one model: two that differ only in Colour
\* are collapsed into a row with variant_count 2, the third has another
\* Storage and a row of its own
GroupingWitness ==
    /\ res.kind = "grouped"
    /\ Len(res.page) = Len(ItemOrder)
    /\ Len(res.rows) = 2
    /\ \E k \in DOMAIN res.rows :
          /\ res.rows[k].variant_count = 2
          /\ \E i, j \in Members(res.rows[k]) :
                tabItem[i].attrs["Colour"] # tabItem[j].attrs["Colour"]
    /\ \A i, j \in Items : tabItem[i].ch_model = tabItem[j].ch_model
    /\ \E i, j \in Items : "Storage" \in DOMAIN tabItem[i].attrs
                            /\ tabItem[i].attrs["Storage"] # tabItem[j].attrs["Storage"]

\* C20: the siblings of a variant item i are the items the grid grouping
\* puts in the row of i, i is one of them, and j is a sibling of i exactly
\* when i is a sibling of j.
SiblingsInverseOfGrouping ==
    res.kind = "siblings" =>
        LET i == res.item_code
        IN  /\ i \in res.siblings
            /\ \A j \in Items :
                  /\ j \in res.siblings <=> BuildPriceGroupKey(j) = BuildPriceGroupKey(i)
                  /\ j \in res.siblings <=> i \in SiblingItemCodes(j)

----------------------------------------------------------------------------
(* Properties of price propagation *)

\* Prices of the siblings A and B on the POS channel, with well-formed
\* dates, and requests that propagate a price of A
PropInsert ==
    \E i \in {"A", "B"}, co \in {Null, "X"}, from \in Days, to \in EndDays :
        /\ to = Unset \/ from <= to
        /\ InsertPrice(NewPriceDoc(i, "POS", co, ValidTriple[1], ValidTriple[2],
                                   ValidTriple[3], from, to, "Active"))

PropPropagate ==
    \E from \in Days, co \in {"", "X"}, st \in {"Active", "Draft"} :
        SavePriceWithPropagation("A",
            [channel |-> "POS", mrp |-> ValidTriple[1], mop |-> ValidTriple[2],
             selling_price |-> ValidTriple[3],
             effective_from |-> from, company |-> co, status |-> st], TRUE)

NextProp == PropInsert \/ PropPropagate

SpecProp == Init /\ [][NextProp]_vars

\* the fields a propagated record shares with the record of the source
SameRecord(a, b) ==
    /\ a.mrp = b.mrp /\ a.mop = b.mop /\ a.selling_price = b.selling_price
    /\ a.effective_from = b.effective_from /\ a.effective_to = b.effective_to
    /\ a.company = b.company /\ a.status = b.status

\* C21: after a propagation that succeeds, every sibling of the source has
\* a record on the channel that equals the source's written record in
\* prices, dates, company and status.
PropagationIdentical ==
    [][(PropPropagate /\ outcome'.err = "ok") =>
          \E s \in DOMAIN price' :
              /\ price'[s].item_code = "A" /\ price'[s].channel = "POS"
              /\ price'[s].modified = today
              /\ \A t \in SiblingItemCodes("A") :
                    \E n \in DOMAIN price' :
                        /\ price'[n].item_code = t /\ price'[n].channel = "POS"
                        /\ price'[n].modified = today
                        /\ SameRecord(price'[n], price'[s])]_vars

----------------------------------------------------------------------------
(* Draft prices *)

\* Draft prices that are edited, rejected and swept while the clock
\* advances; no approval takes place
NextDraft ==
    \/ ApproveInsertDraft \/ NextUpdatePrice \/ NextRejectPrice
    \/ AutoExpireRecords \/ NextDay

SpecDraft == Init /\ [][NextDraft]_vars

\* C23: as long as no approval takes place, a Draft price stays Draft:
\* neither a save, nor a sweep, nor the clock, nor any other step takes
\* it out of Draft.
DraftLeavesOnlyByApproval ==
    [][\A n \in DOMAIN price :
          price[n].status = "Draft" => price'[n].status = "Draft"]_vars

\* the part of C23 about saves, sweeps and the clock
DraftKeptBySaveAndSweep ==
    [][(NextUpdatePrice \/ AutoExpireRecords \/ NextDay) =>
          \A n \in DOMAIN price :
              price[n].status = "Draft" => price'[n].status = "Draft"]_vars

----------------------------------------------------------------------------
(* Saves whose Item Price write fails *)

\* on_update reaches ip.save() in _sync_to_erp_item_price: the document
\* passed validate with status Active or Scheduled and its channel has a
\* Price List
SinkWriteAttempted(snapshot, doc, name, now) ==
    \E v \in {ValidatePrice(snapshot, doc, name, now)} :
        /\ v.err = "ok"
        /\ v.status \in {"Active", "Scheduled"}
        /\ PriceListOf(doc.channel) # Null

\* ip.save() raises: on_update and _sync_to_erp_item_price have no
\* try/except, the exception leaves Document.save and the request's
\* transaction is rolled back
SaveSinkFails ==
    /\ outcome' = [err |-> "SinkError", conflicts |-> NoConflicts]
    /\ res' = [kind |-> "none"]
    /\ UNCHANGED <<serial, tabItem, today, price, itemPrice, offer, pricingRule, offers, wr>>

InsertPriceSinkFails(doc) ==
    /\ Len(price) < Cardinality(PriceNames)
    /\ SinkWriteAttempted(price, doc, Len(price) + 1, today)
    /\ SaveSinkFails

ApprovePriceSinkFails(name) ==
    /\ name \in DOMAIN price
    /\ SinkWriteAttempted(price,
           [price[name] EXCEPT !.status = StatusFromDates(price[name], today)],
           name, today)
    /\ SaveSinkFails

SinkInsert ==
    \E ch \in Channels, from \in Days, to \in EndDays, st \in {"Draft", "Active"} :
        InsertPrice(NewPriceDoc("A", ch, Null, ValidTriple[1], ValidTriple[2],
                                ValidTriple[3], from, to, st))

SinkInsertFails ==
    \E ch \in Channels, from \in Days, to \in EndDays :
        InsertPriceSinkFails(NewPriceDoc("A", ch, Null, ValidTriple[1], ValidTriple[2],
                                         ValidTriple[3], from, to, "Active"))

SinkApproveFails == \E n \in DOMAIN price : ApprovePriceSinkFails(n)

NextSink ==
    \/ SinkInsert \/ NextApprovePrice \/ SinkInsertFails \/ SinkApproveFails
    \/ NextDay

SpecSink == Init /\ [][NextSink]_vars

\* C24: a save or an approve during which the Item Price cannot be written
\* still stores the price record: the price table changes in that step.
SinkFailureStillCommits ==
    [][outcome'.err = "SinkError" => price' # price]_vars

\* the half of C24 about a channel without Price List: the record is
\* stored with the status computed from its dates and nothing is pushed
NoPriceListStillCommits ==
    [][SinkInsert /\ outcome'.err = "ok" =>
          /\ Len(price') = Len(price) + 1
          /\ \E n \in {Len(price')} :
                /\ price'[n].status \in {"Draft", StatusFromDates(price'[n], today)}
                /\ PriceListOf(price'[n].channel) = Null => itemPrice'[n] = itemPrice[n]]_vars

----------------------------------------------------------------------------
(* Reject of a price *)

\* C25: a reject of any price row that does not raise stores status Expired
\* for it and leaves its Item Price, if one exists, ending today.
RejectStoresExpired ==
    [][(NextRejectPrice /\ outcome'.err = "ok") =>
          \E n \in DOMAIN price :
              \E r \in {RejectPriceResult(price, itemPrice, n, today)} :
                  /\ r.rows = price' /\ r.ips = itemPrice'
                  /\ price'[n].status = "Expired"
                  /\ itemPrice'[n].exists => itemPrice'[n].valid_upto = today]_vars

----------------------------------------------------------------------------
(* Order of the offers handed to the resolver *)

\* the list in the order perm of its positions
Permuted(list, perm) == [k \in DOMAIN perm |-> list[perm[k]]]

\* C26: for a list whose priorities are pairwise distinct (0, the unset
\* priority, included), the resolver returns the same price and the same
\* totals for every order of the list.
ResolverOrderIndependent ==
    (/\ res.kind = "best"
     /\ \A i, j \in DOMAIN offers : i # j => offers[i].priority # offers[j].priority)
    => \A perm \in Orderings(DOMAIN offers) :
          \E b \in {ComputeBestOffer(Permuted(offers, perm))} :
              /\ b.price = res.best.price
              /\ b.total_pct = res.best.total_pct
              /\ b.total_amt = res.best.total_amt

----------------------------------------------------------------------------
(* Status and approval of offers *)

\* Bank offers of item A on the POS channel are created, given a new end,
\* approved, rejected and swept while the days pass
StatusInsertOffer ==
    \E start \in Days, end \in AsOfDays :
        InsertOffer(NewOfferDoc("A", "POS", Null, "Bank Offer", "Percentage", 10, 1, TRUE,
                                start, end))

StatusUpdateOffer ==
    \E n \in DOMAIN offer, end \in AsOfDays : UpdateOffer(n, offer[n].start_date, end)

NextOfferStatus ==
    \/ StatusInsertOffer \/ StatusUpdateOffer \/ GridApproveOffer \/ GridRejectOffer
    \/ NextDay \/ AutoExpireRecords

SpecOfferStatus == Init /\ [][NextOfferStatus]_vars

\* C27: a stored offer is Active or Scheduled only when it is Approved, and
\* a stored offer that is neither Approved nor Rejected is Draft.
OfferStatusFollowsApproval ==
    \A n \in DOMAIN offer :
        /\ offer[n].status \in {"Active", "Scheduled"}
              => offer[n].approval_status = "Approved"
        /\ offer[n].approval_status \notin {"Approved", "Rejected"}
              => offer[n].status = "Draft"

\* a later day on which one offer is rejected and the other, approved and
\* swept, is Active or Expired
OfferStatusWitness ==
    /\ today > 1
    /\ \E a, b \in DOMAIN offer :
          /\ Rejected(offer[a])
          /\ offer[b].approval_status = "Approved"
          /\ offer[b].status \in {"Active", "Expired"}
          /\ offer[b].modified = today

----------------------------------------------------------------------------
(* Agreement of the status writers *)

----------------------------------------------------------------------------
(* The single-item lookup against the grid *)

\* the price rows the grid, read without company or status filter, can show
\* for (item, ch) on day asOf: one per order in which the table may return
\* rows of equal effective_from; 0 stands for no price
GridBasePrices(item, ch, asOf) ==
    {FirstIn(pOrder, LatestFrom(price, GridPriceCandidates(price, item, ch, asOf, ""))) :
        pOrder \in Orderings(DOMAIN price)}

\* C29: the base price of a single-item lookup is a base price the grid
\* shows for the same item, channel and day: both find none, or both pick
\* the same price row.
LookupAgreesWithGrid ==
    res.kind = "single" =>
        (IF res.found THEN res.price_name ELSE 0)
            \in GridBasePrices(res.item, res.channel, res.as_of)

----------------------------------------------------------------------------
(* Lifecycle of a serial number *)

SerialInsert == \E s \in LifecycleStatuses \cup {""} : InsertSerial(s)

SerialUpdate == \E s \in LifecycleStatuses \cup {""} : UpdateLifecycleStatus(s)

NextSerial == SerialInsert \/ SerialUpdate

SpecSerial == Init /\ [][NextSerial]_vars

\* C30: the lifecycle_status changes only from a status s to a status that
\* VALID_TRANSITIONS lists for s, the first one from "" to Received; a
\* request that raises leaves the status and the lifecycle log unchanged.
SerialFollowsTransitions ==
    [][/\ serial'.lifecycle_status # serial.lifecycle_status
            => serial'.lifecycle_status \in VALID_TRANSITIONS[serial.lifecycle_status]
       /\ outcome'.err # "ok" => serial' = serial]_vars

\* the statement of C30 for a serial that already has a status
SerialLaterChangesFollowTable ==
    [][/\ (serial.exists /\ serial'.lifecycle_status # serial.lifecycle_status)
            => /\ serial'.lifecycle_status \in VALID_TRANSITIONS[serial.lifecycle_status]
               /\ serial'.lifecycle_log =
                     LogStatusChange(serial.lifecycle_log, serial.lifecycle_status,
                                     serial'.lifecycle_status)
       /\ outcome'.err # "ok" => serial' = serial]_vars

====
